---- MODULE Spec2Model ----
(***************************************************************************)
(* A model of the build-time core of kigwiki-docusaurus:                   *)
(*   - the RateLimiter of src/plugins/remark-social-embeds.ts              *)
(*     (specifications Spec and FairSpec),                                 *)
(*   - the remarkSocialEmbeds transform that uses it (EmbedSpec),          *)
(*   - the maker-data plugin's loadContent pipeline (LoadSpec),            *)
(*   - the whole maker-data build: loadRates, loadContent and the files    *)
(*     contentLoaded generates (BuildSpec),                                *)
(*   - the search, sort and conversion utilities of                        *)
(*     src/utils/filterUtils.ts and the plugin's pure helpers (UtilSpec),  *)
(*   - the cards components that filter and sort a collection (UiSpec).    *)
(* JavaScript runs one callback at a time, so every action below is one    *)
(* synchronous run of code between two suspension points (an await, a      *)
(* timer, a promise reaction).                                             *)
(***************************************************************************)
EXTENDS Integers, Sequences, FiniteSets, TLC

VARIABLES
  now,            \* Date.now()
  queue,          \* RateLimiter.queue: the wrappers, named by task id
  processing,     \* RateLimiter.processing
  lastCallTime,   \* RateLimiter.lastCallTime
  loops,          \* the invocations of RateLimiter.process and where each is suspended
  tasks,          \* per task passed to add(): its body, its wrapper and the promise add() returned
  started,        \* log: the task bodies started, in order, with their start times
  drains,         \* log: number of calls of RateLimiter.process
  nodes,          \* the mdxJsxFlowElement nodes of the document under transformation
  transform,      \* the promise of the transformer returned by remarkSocialEmbeds
  verbose,        \* the plugin option verbose
  dirs,           \* the makers and hadatai directories on disk
  rates,          \* CurrencyConverter.rates
  loadContent,    \* where loadContent() stands, and how its promise settled
  raw,            \* rawMakers and rawHadatai
  content,        \* the value loadContent() returned
  logs,           \* what log() and the console printed
  cache,          \* the file currency-rates.json
  io,             \* log: what loadRates() did with the cache file and the remote feed
  contentLoaded,  \* where contentLoaded() stands, and how its promise settled
  files,          \* the generated data files
  call,           \* a call of one of the utilities of src/utils/filterUtils.ts
  result,         \* what the call returned
  ui,             \* a mounted cards component and the state of its hooks
  snapshot,       \* the records of the array the component was given as data
  propsData,      \* the records the array given as data holds now
  view            \* filteredAndSortedHadatai / filteredAndSortedMakers

rlVars == <<now, queue, processing, lastCallTime, loops, tasks, started, drains>>

embedVars == <<nodes, transform>>

loadVars == <<verbose, dirs, rates, loadContent, raw, content, logs>>

buildVars == <<cache, io, contentLoaded, files>>

utilVars == <<call, result>>

uiVars == <<ui, snapshot, propsData, view>>

vars == <<now, queue, processing, lastCallTime, loops, tasks, started, drains,
          nodes, transform, verbose, dirs, rates, loadContent, raw, content, logs,
          cache, io, contentLoaded, files, call, result, ui, snapshot, propsData, view>>

----------------------------------------------------------------------------
(* Bounds *)

MaxTasks == 3      \* tasks ever passed to add()
MaxTime  == 4      \* the clock stops advancing on its own after this time
Interval == 2      \* the interval given to the constructor
MaxLoops == 2      \* invocations of process() that can be suspended at once
MaxNodes == 2      \* nodes of the document
MaxMakerFiles == 1    \* files listed in the makers directory
MaxHadataiFiles == 2  \* files listed in the hadatai directory

TaskIds == 1..MaxTasks
LoopIds == 1..MaxLoops
NodeIds == 1..MaxNodes

----------------------------------------------------------------------------
(* RateLimiter *)

\* LET x == e IN F(x), with e evaluated once
With(e, F(_)) == CHOOSE v \in {F(x) : x \in {e}} : TRUE

NoValue == <<"none", 0>>

PendingPromise == [state |-> "pending", value |-> NoValue, calls |-> 0]

\* fetch() has not settled
NoResponse == [fetch |-> "pending"]

NewTask == [status |-> "new", kind |-> "fn", node |-> 0, child |-> 0, waits |-> FALSE,
            response |-> NoResponse, result |-> NoValue, promise |-> PendingPromise]

NoNode == [kind |-> [embed |-> FALSE, bsky |-> FALSE, tiktok |-> FALSE, match |-> FALSE],
           attributes |-> <<>>, chain |-> "none", task |-> 0]

IdleLoop == [pc |-> "idle", due |-> 0, task |-> 0]

\* The limiter's fields and the logs, as one value the operators below transform.
RL == [queue |-> queue, processing |-> processing, lastCallTime |-> lastCallTime,
       loops |-> loops, tasks |-> tasks, started |-> started, drains |-> drains]

SetRL(s) ==
  /\ queue' = s.queue
  /\ processing' = s.processing
  /\ lastCallTime' = s.lastCallTime
  /\ loops' = s.loops
  /\ tasks' = s.tasks
  /\ started' = s.started
  /\ drains' = s.drains

\* resolve()/reject() of a promise: only the first call settles it.
Settle(p, st, v) ==
  IF p.state = "pending"
  THEN [state |-> st, value |-> v, calls |-> p.calls + 1]
  ELSE [p EXCEPT !.calls = @ + 1]

Settled(t) == tasks[t].promise.state # "pending"

\* a delay one tick short
TimerDelayShort(n, last) == Interval - (n - last) - 1

\* line 40: the delay handed to setTimeout
TimerDelay(n, last) == Interval - (n - last)

\* queue.pop() in place of queue.shift()
DequeueLast(q) == [fn |-> q[Len(q)], rest |-> SubSeq(q, 1, Len(q) - 1)]

\* line 43: queue.shift()
Dequeue(q) == [fn |-> Head(q), rest |-> Tail(q)]

\* the test of the processing flag left out
ShouldStartAlways(p) == TRUE

\* line 26: if (!this.processing)
ShouldStart(p) == ~p

\* the wrapper without its try/catch: an error of fn() escapes into process()
WrapperNoCatch(t, r) ==
  [target |-> t,
   state  |-> IF r[1] = "error" THEN "pending" ELSE "fulfilled",
   value  |-> r,
   thrown |-> r[1] = "error"]

\* lines 17-24: the wrapper pushed on the queue, run on the outcome r of fn():
\* which promise it settles and how, and whether it throws into process().
Wrapper(t, r) ==
  [target |-> t,
   state  |-> IF r[1] = "error" THEN "rejected" ELSE "fulfilled",
   value  |-> r,
   thrown |-> FALSE]

\* lines 43-46: shift the next wrapper, stamp lastCallTime, call it (the body
\* of fn starts synchronously) and suspend on it.
StartNext(s, l) ==
  IF Len(s.queue) = 0
  THEN [s EXCEPT !.processing = FALSE, !.loops[l] = IdleLoop]
  ELSE LET d == Dequeue(s.queue) IN
       [s EXCEPT !.queue = d.rest,
                 !.lastCallTime = now,
                 !.loops[l] = [pc |-> "task", due |-> 0, task |-> d.fn],
                 !.tasks[d.fn].status = "running",
                 !.started = Append(@, [task |-> d.fn, at |-> now])]

\* process() returning without clearing the processing flag
IterateKeepFlag(s, l) ==
  IF Len(s.queue) = 0
  THEN [s EXCEPT !.loops[l] = IdleLoop]
  ELSE IF now - s.lastCallTime < Interval
       THEN [s EXCEPT !.loops[l] = [pc |-> "timer",
                                    due |-> now + TimerDelay(now, s.lastCallTime),
                                    task |-> 0]]
       ELSE StartNext(s, l)

\* lines 35-50: process() from the while test to its next suspension or return
Iterate(s, l) ==
  IF Len(s.queue) = 0
  THEN [s EXCEPT !.processing = FALSE, !.loops[l] = IdleLoop]
  ELSE IF now - s.lastCallTime < Interval
       THEN [s EXCEPT !.loops[l] = [pc |-> "timer",
                                    due |-> now + TimerDelay(now, s.lastCallTime),
                                    task |-> 0]]
       ELSE StartNext(s, l)

\* process() that never raises the processing flag
processNoFlag(s, l) == Iterate([s EXCEPT !.drains = @ + 1], l)

\* lines 32-51
process(s, l) == Iterate([s EXCEPT !.processing = TRUE, !.drains = @ + 1], l)

FreeLoops(s) == {l \in LoopIds : s.loops[l].pc = "idle"}

\* add() that starts process() whenever the queue was empty
addWhenQueueEmpty(s, t, k) ==
  LET s1 == [s EXCEPT !.queue = Append(@, t),
                      !.tasks[t].status = "queued",
                      !.tasks[t].kind = k]
  IN IF Len(s.queue) = 0 /\ FreeLoops(s1) # {}
     THEN process(s1, CHOOSE l \in FreeLoops(s1) : \A m \in FreeLoops(s1) : l <= m)
     ELSE s1

\* lines 15-30: add(fn), fn being the body of task t
add(s, t, k) ==
  LET s1 == [s EXCEPT !.queue = Append(@, t),
                      !.tasks[t].status = "queued",
                      !.tasks[t].kind = k]
  IN IF ShouldStart(s1.processing) /\ FreeLoops(s1) # {}
     THEN process(s1, CHOOSE l \in FreeLoops(s1) : \A m \in FreeLoops(s1) : l <= m)
     ELSE s1

UnusedIn(s) == {t \in TaskIds : s.tasks[t].status = "new"}

NextIdIn(s) == CHOOSE t \in UnusedIn(s) : \A u \in UnusedIn(s) : t <= u

Unused == UnusedIn(RL)

NextId == NextIdIn(RL)

\* fetch() rejected
NetworkError == [fetch |-> "rejected"]

\* fetch() fulfilled with a response: its ok flag, and what its body is:
\* "invalid" is a body response.json() rejects, "string" a JSON object whose
\* did or html field is a non-empty string, "number" one whose field is a
\* number, "none" one without the field or with an empty one
Answer(ok, body) == [fetch |-> "fulfilled", ok |-> ok, body |-> body]

DidResponses ==
  {NetworkError} \cup {Answer(ok, body) : ok \in BOOLEAN, body \in {"invalid", "none", "string", "number"}}

TikTokResponses ==
  {NetworkError} \cup {Answer(ok, body) : ok \in BOOLEAN, body \in {"invalid", "none", "string"}}

\* the body of resolveDid without its test of response.ok
resolveDidAnyStatus(t, resp) ==
  IF resp.fetch = "rejected" \/ resp.body = "invalid" THEN <<"error", t>>
  ELSE IF resp.body = "none" THEN <<"error", t>>
  ELSE IF resp.body = "string" THEN <<"did", t>>
  ELSE <<"number", t>>

\* lines 84-109: the body of resolveDid, from the response on
resolveDid(t, resp) ==
  IF resp.fetch = "rejected" \/ resp.body = "invalid" THEN <<"error", t>>
  ELSE IF ~resp.ok THEN <<"error", t>>
  ELSE IF resp.body = "none" THEN <<"error", t>>
  ELSE IF resp.body = "string" THEN <<"did", t>>
  ELSE <<"number", t>>

\* lines 114-120: the body of resolveTikTokEmbed, from the response on
resolveTikTokEmbed(t, resp) ==
  IF resp.fetch = "rejected" \/ resp.body = "invalid" THEN <<"error", t>>
  ELSE IF resp.body = "string" THEN <<"html", t>>
  ELSE <<"undefined", 0>>

\* the responses the fetch of a task can settle with
Responses(t) ==
  CASE tasks[t].kind = "did" -> DidResponses
    [] tasks[t].kind = "tiktok" -> TikTokResponses
    [] OTHER -> {}

\* The outcomes the body of a task can have: a function handed to add()
\* returns or throws; the bodies of resolveDid and resolveTikTokEmbed end as
\* the response they fetched makes them.
Outcomes(t) ==
  CASE tasks[t].kind = "fn" -> {<<"result", t>>, <<"error", t>>}
    [] tasks[t].kind = "did" ->
         IF tasks[t].response = NoResponse THEN {} ELSE {resolveDid(t, tasks[t].response)}
    [] tasks[t].kind = "tiktok" ->
         IF tasks[t].response = NoResponse THEN {} ELSE {resolveTikTokEmbed(t, tasks[t].response)}

----------------------------------------------------------------------------
(* Actions of the RateLimiter *)

\* The clock advances.  Past MaxTime it advances only towards a pending timer.
Tick ==
  /\ \/ now < MaxTime
     \/ \E l \in LoopIds : loops[l].pc = "timer" /\ loops[l].due > now
  /\ now' = now + 1
  /\ UNCHANGED <<queue, processing, lastCallTime, loops, tasks, started, drains>>
  /\ UNCHANGED <<embedVars, loadVars, buildVars, utilVars, uiVars>>

\* A caller outside the queue calls add(fn).
Add ==
  /\ Unused # {}
  /\ SetRL(add(RL, NextId, "fn"))
  /\ UNCHANGED <<now, embedVars, loadVars, buildVars, utilVars, uiVars>>

\* line 40: the interval timer of a suspended process() fires.
TimerFire(l) ==
  /\ loops[l].pc = "timer"
  /\ now >= loops[l].due
  /\ SetRL(StartNext(RL, l))
  /\ UNCHANGED <<now, embedVars, loadVars, buildVars, utilVars, uiVars>>

\* The running body of task t itself calls add(inner) on the same limiter,
\* and then awaits the returned promise (w) or not.
TaskSpawn(t, w) ==
  /\ tasks[t].status = "running"
  /\ tasks[t].kind = "fn"
  /\ tasks[t].child = 0
  /\ Unused # {}
  /\ SetRL(add([RL EXCEPT !.tasks[t].child = NextId, !.tasks[t].waits = w],
               NextId, "fn"))
  /\ UNCHANGED <<now, embedVars, loadVars, buildVars, utilVars, uiVars>>

\* lines 89 and 114: the fetch() of a running resolver settles
Respond(t, resp) ==
  /\ tasks[t].status = "running"
  /\ tasks[t].response = NoResponse
  /\ resp \in Responses(t)
  /\ tasks' = [tasks EXCEPT ![t].response = resp]
  /\ UNCHANGED <<now, queue, processing, lastCallTime, loops, started, drains>>
  /\ UNCHANGED <<embedVars, loadVars, buildVars, utilVars, uiVars>>

\* lines 18-23: the promise of fn() settles with outcome r; the wrapper
\* settles the promise add() returned, and process() becomes ready to resume.
TaskSettle(t, r) ==
  /\ tasks[t].status = "running"
  /\ r \in Outcomes(t)
  /\ tasks[t].waits => Settled(tasks[t].child)
  /\ LET w == Wrapper(t, r) IN
     /\ tasks' = [u \in TaskIds |->
                    LET a == IF u = t THEN [tasks[u] EXCEPT !.status = "done", !.result = r]
                             ELSE tasks[u]
                    IN IF u = w.target /\ w.state # "pending"
                       THEN [a EXCEPT !.promise = Settle(@, w.state, w.value)]
                       ELSE a]
     /\ loops' = [l \in LoopIds |->
                    IF loops[l].pc = "task" /\ loops[l].task = t
                    THEN [loops[l] EXCEPT !.pc = IF w.thrown THEN "crashed" ELSE "resume"]
                    ELSE loops[l]]
  /\ UNCHANGED <<now, queue, processing, lastCallTime, started, drains>>
  /\ UNCHANGED <<embedVars, loadVars, buildVars, utilVars, uiVars>>

\* line 46 returns: process() goes round its loop.
LoopResume(l) ==
  /\ loops[l].pc = "resume"
  /\ SetRL(Iterate(RL, l))
  /\ UNCHANGED <<now, embedVars, loadVars, buildVars, utilVars, uiVars>>

InitRL ==
  /\ now \in {0, Interval}
  /\ queue = <<>>
  /\ processing = FALSE
  /\ lastCallTime = 0
  /\ loops = [l \in LoopIds |-> IdleLoop]
  /\ tasks = [t \in TaskIds |-> NewTask]
  /\ started = <<>>
  /\ drains = 0

----------------------------------------------------------------------------
(* remarkSocialEmbeds *)

\* What the visitor reads of a node: whether it is a SocialEmbed element with
\* a string post attribute, and of that URL whether it contains "bsky.app",
\* whether it contains "tiktok.com", and whether it matches
\* /bsky\.app\/profile\/([\w.-]+)\/post\//.
NodeKinds ==
  {k \in [embed : BOOLEAN, bsky : BOOLEAN, tiktok : BOOLEAN, match : BOOLEAN] :
     /\ k.match => k.bsky
     /\ ~k.embed => (~k.bsky /\ ~k.tiktok)}

PostAttr(n) == [name |-> "post", value |-> <<"url", n>>]

MakeNode(n, k) ==
  [kind |-> k, attributes |-> IF k.embed THEN <<PostAttr(n)>> ELSE <<>>,
   chain |-> "none", task |-> 0]

\* the "tiktok.com" test made first
ResolverTikTokFirst(k) ==
  IF ~k.embed THEN "none"
  ELSE IF k.tiktok THEN "tiktok"
  ELSE IF k.bsky THEN (IF k.match THEN "did" ELSE "none")
  ELSE "none"

\* lines 128-173: the resolver the visitor launches for a node
Resolver(k) ==
  IF ~k.embed THEN "none"
  ELSE IF k.bsky THEN (IF k.match THEN "did" ELSE "none")
  ELSE IF k.tiktok THEN "tiktok"
  ELSE "none"

\* lines 127-176: visit() from node n on; each resolver calls rateLimiter.add
\* synchronously and its promise chain is pushed on promises.
RECURSIVE Visit(_, _, _)
Visit(s0, ns0, n) ==
  With(s0, LAMBDA s : With(ns0, LAMBDA ns :
    IF n > MaxNodes THEN [rl |-> s, nodes |-> ns]
    ELSE IF Resolver(ns[n].kind) = "none" \/ UnusedIn(s) = {} THEN Visit(s, ns, n + 1)
    ELSE Visit(add([s EXCEPT !.tasks[NextIdIn(s)].node = n], NextIdIn(s), Resolver(ns[n].kind)),
               [ns EXCEPT ![n].chain = "pending", ![n].task = NextIdIn(s)],
               n + 1)))

\* lines 143-158 and 165-171: the reactions chained on the promise p of a
\* resolver: the attribute pushed on the node, if any, and how the chained
\* promise settles.
ChainReaction(r, p) ==
  IF r = "did"
  THEN [push  |-> p.state = "fulfilled" /\ p.value[1] = "did",
        attr  |-> [name |-> "did", value |-> p.value],
        state |-> "fulfilled"]
  ELSE [push  |-> p.state = "fulfilled",
        attr  |-> [name |-> "embedHtml", value |-> p.value],
        state |-> p.state]

\* line 179: Promise.all over the chains: rejected as soon as one chain is,
\* fulfilled once all are, pending otherwise.
PromiseAll(ns) ==
  IF \E n \in NodeIds : ns[n].chain = "rejected" THEN "rejected"
  ELSE IF \A n \in NodeIds : ns[n].chain \in {"none", "fulfilled"} THEN "fulfilled"
  ELSE "waiting"

\* lines 124-179: the transformer runs on the tree up to its await.
Transform ==
  /\ transform = "idle"
  /\ \E v \in {Visit(RL, nodes, 1)} :
       /\ SetRL(v.rl)
       /\ nodes' = v.nodes
  /\ transform' = "waiting"
  /\ UNCHANGED <<now, loadVars, buildVars, utilVars, uiVars>>

\* The promise of node n's resolver has settled: its reactions run.
ChainSettle(n) ==
  /\ nodes[n].chain = "pending"
  /\ Settled(nodes[n].task)
  /\ LET c == ChainReaction(tasks[nodes[n].task].kind, tasks[nodes[n].task].promise) IN
     nodes' = [nodes EXCEPT ![n].chain = c.state,
                            ![n].attributes = IF c.push THEN Append(@, c.attr) ELSE @]
  /\ UNCHANGED <<rlVars, transform, loadVars, buildVars, utilVars, uiVars>>

\* line 179: the await of the transformer ends.
TransformSettle ==
  /\ transform = "waiting"
  /\ PromiseAll(nodes) # "waiting"
  /\ transform' = PromiseAll(nodes)
  /\ UNCHANGED <<rlVars, nodes, loadVars, buildVars, utilVars, uiVars>>

----------------------------------------------------------------------------
(* JavaScript values.  A string is the sequence of its characters.         *)

Undef == [t |-> "undefined"]
Null == [t |-> "null"]
Str(s) == [t |-> "string", s |-> s]
Num(n) == [t |-> "number", n |-> n]
Bool(b) == [t |-> "boolean", b |-> b]
List(l) == [t |-> "array", l |-> l]
Obj(o) == [t |-> "object", o |-> o]

\* ToBoolean
Truthy(v) ==
  CASE v.t \in {"undefined", "null"} -> FALSE
    [] v.t = "string" -> v.s # <<>>
    [] v.t = "number" -> v.n # 0
    [] v.t = "boolean" -> v.b
    [] OTHER -> TRUE

\* a || b
Or(a, b) == IF Truthy(a) THEN a ELSE b

RECURSIVE Concat(_)
Concat(ss) == IF ss = <<>> THEN <<>> ELSE Head(ss) \o Concat(Tail(ss))

----------------------------------------------------------------------------
(* The maker-data plugin: loading the directories *)

DirNames == {"makers", "hadatai"}

\* lines 579-583: log() prints only under the verbose option
log(m) == IF verbose THEN <<m>> ELSE <<>>

Message(msg, d, arg) == [msg |-> msg, dir |-> d, arg |-> arg]

\* lines 586-588
directoryExists(dir) == dir.state # "missing"

\* a listing that keeps the files of every extension
getJsonFilesAll(d, dir) ==
  IF dir.state = "unreadable"
  THEN [value |-> <<>>, log |-> log(Message("Error reading directory", d, 0))]
  ELSE [value |-> [i \in 1..Len(dir.files) |-> i], log |-> <<>>]

\* lines 591-599: the positions in the listing of the files named *.json
getJsonFiles(d, dir) ==
  IF dir.state = "unreadable"
  THEN [value |-> <<>>, log |-> log(Message("Error reading directory", d, 0))]
  ELSE [value |-> SelectSeq([i \in 1..Len(dir.files) |-> i],
                            LAMBDA i : dir.files[i].json),
        log |-> <<>>]

\* lines 602-612: reading parsed.name of null raises inside the try
loadSingleJsonFile(d, i, file) ==
  IF file.state # "parsed" \/ file.parsed.t = "null"
  THEN [value |-> Null, log |-> log(Message("Error loading", d, i))]
  ELSE [value |-> file.parsed, log |-> log(Message("Loaded", d, i))]

\* lines 614-634
loadJsonFiles(d, dir) ==
  IF ~directoryExists(dir)
  THEN [value |-> <<>>, log |-> log(Message("Directory does not exist", d, 0))]
  ELSE With(getJsonFiles(d, dir), LAMBDA jsonFiles :
       With([k \in 1..Len(jsonFiles.value) |->
               loadSingleJsonFile(d, jsonFiles.value[k], dir.files[jsonFiles.value[k]])],
            LAMBDA loaded :
         [value |-> SelectSeq([k \in 1..Len(loaded) |-> loaded[k].value], Truthy),
          log |-> jsonFiles.log
                  \o log(Message("Found", d, Len(jsonFiles.value)))
                  \o Concat([k \in 1..Len(loaded) |-> loaded[k].log])]))

----------------------------------------------------------------------------
(* Strings and numbers *)

UpperToLower ==
  ("A" :> "a") @@ ("B" :> "b") @@ ("C" :> "c") @@ ("D" :> "d") @@ ("E" :> "e") @@ ("F" :> "f") @@ ("G" :> "g") @@ ("H" :> "h") @@ ("I" :> "i") @@ ("J" :> "j") @@ ("K" :> "k") @@ ("L" :> "l") @@ ("M" :> "m") @@
  ("N" :> "n") @@ ("O" :> "o") @@ ("P" :> "p") @@ ("Q" :> "q") @@ ("R" :> "r") @@ ("S" :> "s") @@ ("T" :> "t") @@ ("U" :> "u") @@ ("V" :> "v") @@ ("W" :> "w") @@ ("X" :> "x") @@ ("Y" :> "y") @@ ("Z" :> "z")

\* String.prototype.toLowerCase
toLowerCase(s) == [i \in 1..Len(s) |-> IF s[i] \in DOMAIN UpperToLower THEN UpperToLower[s[i]] ELSE s[i]]

\* String.prototype.includes
includes(s, sub) == \E i \in 0..(Len(s) - Len(sub)) : SubSeq(s, i + 1, i + Len(sub)) = sub

DigitValue == ("0" :> 0) @@ ("1" :> 1) @@ ("2" :> 2) @@ ("3" :> 3) @@ ("4" :> 4) @@ ("5" :> 5) @@ ("6" :> 6) @@ ("7" :> 7) @@ ("8" :> 8) @@ ("9" :> 9)

Digits == DOMAIN DigitValue

DigitChars == <<"0", "1", "2", "3", "4", "5", "6", "7", "8", "9">>

RECURSIVE NatOf(_)
NatOf(ds) == IF ds = <<>> THEN 0 ELSE 10 * NatOf(SubSeq(ds, 1, Len(ds) - 1)) + DigitValue[ds[Len(ds)]]

RECURSIVE DigitsOf(_)
DigitsOf(n) == IF n < 10 THEN <<DigitChars[n + 1]>> ELSE DigitsOf(n \div 10) \o <<DigitChars[(n % 10) + 1]>>

RECURSIVE Pow10(_)
Pow10(d) == IF d = 0 THEN 1 ELSE 10 * Pow10(d - 1)

\* A non-negative decimal number n / 10^d, kept without trailing zeros; NaN apart.
NaN == [nan |-> TRUE, n |-> 0, d |-> 0]

RECURSIVE Decimal(_, _)
Decimal(n, d) ==
  IF d > 0 /\ n % 10 = 0 THEN Decimal(n \div 10, d - 1) ELSE [nan |-> FALSE, n |-> n, d |-> d]

RECURSIVE PadDigits(_, _)
PadDigits(ds, d) == IF Len(ds) >= d THEN ds ELSE PadDigits(<<"0">> \o ds, d)

\* Number.prototype.toString of a decimal
NumberToString(a) ==
  IF a.d = 0 THEN DigitsOf(a.n)
  ELSE DigitsOf(a.n \div Pow10(a.d)) \o <<".">> \o PadDigits(DigitsOf(a.n % Pow10(a.d)), a.d)

\* the string a template literal makes of a value
TemplateString(v) ==
  CASE v.t = "string" -> v.s
    [] v.t = "number" -> DigitsOf(v.n)
    [] v.t = "undefined" -> <<"u", "n", "d", "e", "f", "i", "n", "e", "d">>
    [] v.t = "null" -> <<"n", "u", "l", "l">>
    [] v.t = "boolean" -> IF v.b THEN <<"t", "r", "u", "e">> ELSE <<"f", "a", "l", "s", "e">>
    [] OTHER -> <<"[", "o", "b", "j", "e", "c", "t", " ", "O", "b", "j", "e", "c", "t", "]">>

\* item.f: a property a value does not have reads as undefined
Field(item, f) == IF item.t = "object" /\ f \in DOMAIN item.o THEN item.o[f] ELSE Undef

----------------------------------------------------------------------------
(* CurrencyConverter (src/utils/filterUtils.ts) *)

\* A rate is kept in hundredths: 0.85 is 85.
RateScale == 100

NoRates == [date |-> "none", usd |-> <<>>]

\* lines 256-346: the fallback table, the codes the records below use
FallbackRates ==
  [date |-> "today",
   usd |-> (<<"u", "s", "d">> :> 100) @@ (<<"e", "u", "r">> :> 85) @@
           (<<"j", "p", "y">> :> 14800) @@ (<<"c", "n", "y">> :> 710)]

\* a table as the cache file or the remote feed holds it
FeedRates ==
  [date |-> "feed",
   usd |-> (<<"u", "s", "d">> :> 100) @@ (<<"e", "u", "r">> :> 92) @@
           (<<"j", "p", "y">> :> 10000) @@ (<<"c", "n", "y">> :> 725)]

\* lines 224-349: the tables loadRates() can leave in the converter
RateTables == {FeedRates, FallbackRates}

Ok(v, out) == [threw |-> FALSE, value |-> v, log |-> out]

Threw(out) == [threw |-> TRUE, value |-> Undef, log |-> out]

\* the names a rate table inherits from Object.prototype that are their own
\* lower case
InheritedKeys == {<<"c", "o", "n", "s", "t", "r", "u", "c", "t", "o", "r">>}

\* line 357: this.rates.usd[code], an own property, an inherited one or undefined
Lookup(table, code) ==
  IF code \in DOMAIN table THEN Num(table[code])
  ELSE IF code \in InheritedKeys THEN [t |-> "function"]
  ELSE Undef

\* the quotient cut to an integer
RoundDown(num, den) == num \div den

\* Math.round of num / den
Round(num, den) == (2 * num + den) \div (2 * den)

\* lines 351-379; a number divided by a function is NaN
convertPrice(amount, fromCurrency, rs) ==
  IF rs = NoRates \/ fromCurrency.t # "string" THEN Threw(<<>>)
  ELSE With(Lookup(rs.usd, toLowerCase(fromCurrency.s)), LAMBDA rate :
         IF ~Truthy(rate)
         THEN Ok([original |-> NumberToString(amount),
                  originalCurrency |-> fromCurrency,
                  converted |-> amount,
                  convertedFormatted |-> <<"$">> \o DigitsOf(Round(amount.n, Pow10(amount.d)))],
                 <<Message("Unknown currency", "console", 0)>>)
         ELSE IF rate.t # "number"
         THEN Ok([original |-> NumberToString(amount),
                  originalCurrency |-> fromCurrency,
                  converted |-> NaN,
                  convertedFormatted |-> <<"$", "N", "a", "N">>],
                 <<>>)
         ELSE With(Round(amount.n * RateScale, Pow10(amount.d) * rate.n), LAMBDA rounded :
              Ok([original |-> NumberToString(amount),
                  originalCurrency |-> fromCurrency,
                  converted |-> Decimal(rounded, 0),
                  convertedFormatted |-> <<"$">> \o DigitsOf(rounded)],
                 <<>>)))

\* line 383: priceStr.match(/[\d,]+\.?\d*/), the empty string standing for no match
NumericMatch(str) ==
  With({i \in 1..Len(str) : str[i] \in Digits \cup {","}}, LAMBDA first :
    IF first = {} THEN <<>>
    ELSE With(CHOOSE k \in first : \A m \in first : k <= m, LAMBDA i :
         With(CHOOSE k \in i..Len(str) :
                /\ \A m \in i..k : str[m] \in Digits \cup {","}
                /\ k = Len(str) \/ str[k + 1] \notin Digits \cup {","},
              LAMBDA e1 :
         With(IF e1 < Len(str) /\ str[e1 + 1] = "." THEN e1 + 1 ELSE e1, LAMBDA e2 :
         With(CHOOSE k \in e2..Len(str) :
                /\ \A m \in (e2 + 1)..k : str[m] \in Digits
                /\ k = Len(str) \/ str[k + 1] \notin Digits,
              LAMBDA e3 : SubSeq(str, i, e3))))))

\* parseFloat of digits with at most one point among them
parseFloat(str) ==
  LET points == {i \in 1..Len(str) : str[i] = "."}
      p == IF points = {} THEN Len(str) + 1 ELSE CHOOSE k \in points : TRUE
      int == SubSeq(str, 1, p - 1)
      frac == SubSeq(str, p + 1, Len(str))
  IN IF int = <<>> /\ frac = <<>> THEN NaN ELSE Decimal(NatOf(int \o frac), Len(frac))

\* lines 381-408
convertPriceString(priceStr, currency, rs) ==
  With(NumericMatch(priceStr), LAMBDA numericMatch :
    IF numericMatch = <<>>
    THEN Ok([original |-> priceStr, originalCurrency |-> currency,
             converted |-> Decimal(0, 0), convertedFormatted |-> priceStr], <<>>)
    ELSE With(parseFloat(SelectSeq(numericMatch, LAMBDA c : c # ",")), LAMBDA amount :
           IF amount.nan
           THEN Ok([original |-> priceStr, originalCurrency |-> currency,
                    converted |-> Decimal(0, 0), convertedFormatted |-> priceStr], <<>>)
           ELSE convertPrice(amount, currency, rs)))

----------------------------------------------------------------------------
(* The maker-data plugin: normalizing the records *)

\* lines 637-654
getRegion(item) == Or(Field(item, "Region"), Field(item, "region"))

EmptyObject == Obj([f \in {} |-> Undef])

getSocials(item) == Or(Field(item, "socials"), EmptyObject)

getFeatures(item) == Or(Field(item, "features"), EmptyObject)

getHairOptions(item) == Or(Field(item, "hairOptions"), EmptyObject)

\* the placeholder written in lower case
UnknownLower == Str(<<"u", "n", "k", "n", "o", "w", "n">>)

\* lines 660 and 755: the placeholder of a record without a name
Unknown == Str(<<"U", "n", "k", "n", "o", "w", "n">>)

\* lines 657-687: no property read of a record loadJsonFiles() returned raises
transformSingleMaker(item) ==
  Ok([name |-> Or(Field(item, "name"), Unknown),
      alias |-> Field(item, "alias"),
      website |-> Field(item, "website"),
      status |-> Field(item, "status"),
      region |-> getRegion(item),
      socials |-> getSocials(item),
      priceRange |-> Field(item, "priceRange"),
      priceDetails |-> Field(item, "priceDetails"),
      approxStartingPrice |-> Field(item, "approxStartingPrice"),
      currency |-> Field(item, "currency"),
      priceTier |-> Field(item, "priceTier"),
      type |-> Field(item, "type"),
      size |-> Field(item, "size"),
      materialType |-> Field(item, "materialType"),
      englishOrdering |-> Field(item, "englishOrdering"),
      features |-> getFeatures(item),
      hairOptions |-> getHairOptions(item),
      notes |-> Field(item, "notes")],
     <<>>)

\* Array.prototype.map with a callback that may throw, given what the
\* callback does on each element: the first throw ends the map.
MapResult(results) ==
  With(results, LAMBDA rs :
  With({k \in 1..Len(rs) : rs[k].threw}, LAMBDA bad :
    IF bad = {}
    THEN Ok([k \in 1..Len(rs) |-> rs[k].value], Concat([k \in 1..Len(rs) |-> rs[k].log]))
    ELSE With(CHOOSE k \in bad : \A m \in bad : k <= m, LAMBDA b :
           Threw(Concat([k \in 1..b |-> rs[k].log])))))

\* lines 689-691
transformMakerData(rawData) ==
  MapResult([k \in 1..Len(rawData) |-> transformSingleMaker(rawData[k])])

\* an example built anew from its type and its price
convertPriceExampleTypeAndPrice(example, currency, rs) ==
  IF Field(example, "price").t \in {"undefined", "null"} \/ example.t # "object"
  THEN Ok(example, log(Message("Failed to convert price", "hadatai", 0)))
  ELSE With(convertPriceString(TemplateString(Field(example, "price")), currency, rs),
            LAMBDA converted :
       IF converted.threw
       THEN Ok(example, converted.log \o log(Message("Failed to convert price", "hadatai", 0)))
       ELSE Ok(Obj([type |-> Field(example, "type"),
                    price |-> Str(converted.value.convertedFormatted \o <<" ", "U", "S", "D", " ", "(">>
                                  \o converted.value.original \o <<" ">>
                                  \o TemplateString(converted.value.originalCurrency) \o <<")">>)]),
               converted.log))

\* lines 696-705: the callback of convertPriceExamples, which catches
convertPriceExample(example, currency, rs) ==
  IF Field(example, "price").t \in {"undefined", "null"} \/ example.t # "object"
  THEN Ok(example, log(Message("Failed to convert price", "hadatai", 0)))
  ELSE With(convertPriceString(TemplateString(Field(example, "price")), currency, rs),
            LAMBDA converted :
       IF converted.threw
       THEN Ok(example, converted.log \o log(Message("Failed to convert price", "hadatai", 0)))
       ELSE Ok(Obj([f \in DOMAIN example.o \cup {"price"} |->
                      IF f = "price"
                      THEN Str(converted.value.convertedFormatted \o <<" ", "U", "S", "D", " ", "(">>
                               \o converted.value.original \o <<" ">>
                               \o TemplateString(converted.value.originalCurrency) \o <<")">>)
                      ELSE example.o[f]]),
               converted.log))

\* lines 694-707
convertPriceExamples(priceExamples, currency, rs) ==
  With(MapResult([k \in 1..Len(priceExamples) |->
                    convertPriceExample(priceExamples[k], currency, rs)]),
       LAMBDA r : Ok(List(r.value), r.log))

\* lines 710-719: a value that is no array has no map()
getPriceExamples(item, rs) ==
  LET priceExamples == Or(Field(item, "priceExamples"), List(<<>>)) IN
  IF ~Truthy(Field(item, "currency")) \/ (priceExamples.t = "array" /\ priceExamples.l = <<>>)
  THEN Ok(priceExamples, <<>>)
  ELSE IF priceExamples.t # "array" THEN Threw(<<>>)
  ELSE convertPriceExamples(priceExamples.l, Field(item, "currency"), rs)

\* the indicators of support looked at before the purchasing agent
getEnglishOrderingSupportIndicatorsFirst(item) ==
  IF Field(item, "englishOrdering") # Undef THEN Ok(Field(item, "englishOrdering"), <<>>)
  ELSE IF Field(item, "notes").t \notin {"string", "undefined", "null"} THEN Threw(<<>>)
  ELSE With(IF Field(item, "notes").t = "string"
            THEN toLowerCase(Field(item, "notes").s) ELSE <<>>,
            LAMBDA notes :
              IF \/ includes(notes, <<"w", "e", "b", "s", "i", "t", "e">>)
                 \/ includes(notes, <<"e", "n", "g", "l", "i", "s", "h">>)
                 \/ includes(notes, <<"i", "n", "t", "e", "r", "n", "a", "t", "i", "o", "n", "a", "l">>)
                 \/ Field(item, "currency") = Str(<<"U", "S", "D">>)
              THEN Ok(Bool(TRUE), <<>>)
              ELSE Ok(Bool(FALSE), <<>>))

\* lines 722-749: notes that are neither a string nor null/undefined have no toLowerCase()
getEnglishOrderingSupport(item) ==
  IF Field(item, "englishOrdering") # Undef THEN Ok(Field(item, "englishOrdering"), <<>>)
  ELSE IF Field(item, "notes").t \notin {"string", "undefined", "null"} THEN Threw(<<>>)
  ELSE With(IF Field(item, "notes").t = "string"
            THEN toLowerCase(Field(item, "notes").s) ELSE <<>>,
            LAMBDA notes :
       LET hasWebsiteOrdering == \/ includes(notes, <<"w", "e", "b", "s", "i", "t", "e">>)
                                 \/ includes(notes, <<"o", "r", "d", "e", "r", "e", "d", " ", "v", "i", "a", " ", "t", "h", "e", "i", "r", " ", "o", "w", "n", " ", "w", "e", "b", "s", "i", "t", "e">>)
           hasEnglishSupport == \/ includes(notes, <<"e", "n", "g", "l", "i", "s", "h">>)
                                \/ includes(notes, <<"i", "n", "t", "e", "r", "n", "a", "t", "i", "o", "n", "a", "l">>)
           hasUSDCurrency == Field(item, "currency") = Str(<<"U", "S", "D">>)
           requiresTaobaoAgent == includes(notes, <<"t", "a", "o", "b", "a", "o">>) /\ includes(notes, <<"a", "g", "e", "n", "t">>)
       IN IF requiresTaobaoAgent THEN Ok(Bool(FALSE), <<>>)
          ELSE IF hasWebsiteOrdering \/ hasEnglishSupport \/ hasUSDCurrency THEN Ok(Bool(TRUE), <<>>)
          ELSE Ok(Bool(FALSE), <<>>))

\* lines 752-771: an error raised while the literal is built is logged and
\* rethrown as a DataTransformationError
transformSingleHadatai(item, rs) ==
  With(getPriceExamples(item, rs), LAMBDA priceExamples :
    IF priceExamples.threw
    THEN Threw(priceExamples.log \o log(Message("Error transforming hadatai", "hadatai", 0)))
    ELSE With(getEnglishOrderingSupport(item), LAMBDA englishOrdering :
      IF englishOrdering.threw
      THEN Threw(priceExamples.log \o log(Message("Error transforming hadatai", "hadatai", 0)))
      ELSE Ok([name |-> Or(Field(item, "name"), Unknown),
               region |-> getRegion(item),
               currency |-> Field(item, "currency"),
               socials |-> getSocials(item),
               priceExamples |-> priceExamples.value,
               notes |-> Field(item, "notes"),
               englishOrdering |-> englishOrdering.value],
              priceExamples.log)))

\* lines 773-775
transformHadataiData(rawData, rs) ==
  MapResult([k \in 1..Len(rawData) |-> transformSingleHadatai(rawData[k], rs)])

----------------------------------------------------------------------------
(* The files of the two directories *)

JsonFile(v) == [json |-> TRUE, state |-> "parsed", parsed |-> v]

\* A file of another extension, a file that cannot be read, a file that is
\* not JSON, and files holding the JSON values null and 0.
OtherFiles ==
  {[json |-> FALSE, state |-> "parsed", parsed |-> Obj([name |-> Str(<<"Z">>)])],
   [json |-> TRUE, state |-> "unreadable", parsed |-> Undef],
   [json |-> TRUE, state |-> "malformed", parsed |-> Undef],
   JsonFile(Null),
   JsonFile(Num(0))}

MakerRaws ==
  {Obj([name |-> Str(<<"A", "c", "m", "e">>)]),
   Obj([Region |-> Str(<<"T", "o", "k", "y", "o">>), region |-> Str(<<"O", "s", "a", "k", "a">>),
        socials |-> Obj([x |-> Str(<<"x">>)]), priceRange |-> Str(<<"$", "3", "0", "0">>)]),
   Num(5)}

HadataiRaws ==
  {Obj([name |-> Str(<<"A">>), currency |-> Str(<<"J", "P", "Y">>),
        priceExamples |-> List(<<Obj([type |-> Str(<<"F">>), price |-> Str(<<"1", ",", "0", "0", "0">>)]),
                                 Obj([type |-> Str(<<"T">>), price |-> Str(<<"V", "a", "r", "i", "e", "s">>)])>>),
        notes |-> Str(<<"T", "a", "o", "b", "a", "o", " ", "a", "g", "e", "n", "t">>)]),
   Obj([name |-> Str(<<"B">>), currency |-> Str(<<"J", "P", "Y">>),
        priceExamples |-> Str(<<"n", "/", "a">>)]),
   Obj([name |-> Str(<<"C">>), notes |-> Num(5)]),
   Obj([Region |-> Str(<<"R">>), currency |-> Str(<<"U", "S", "D">>),
        priceExamples |-> List(<<Obj([type |-> Str(<<"F">>), price |-> Num(250)])>>)]),
   Obj([name |-> Str(<<"D">>), currency |-> Str(<<"X", "X", "X">>),
        priceExamples |-> List(<<Obj([type |-> Str(<<"F">>), price |-> Str(<<"1", "2", ".", "5">>),
                                      link |-> Str(<<"l">>)])>>),
        notes |-> Str(<<"E", "n", "g", "l", "i", "s", "h", " ", "w", "e", "b", "s", "i", "t", "e">>)]),
   Obj([name |-> Str(<<"E">>), englishOrdering |-> Bool(TRUE), notes |-> Num(5)]),
   Obj([name |-> Str(<<"A", "c", "m", "e">>)]),
   Obj([name |-> Str(<<"F">>), currency |-> Str(<<"E", "U", "R">>),
        priceExamples |-> List(<<Obj([type |-> Str(<<"F">>), price |-> Str(<<"1", "2", ".", "5">>)])>>)])}

MakerFiles == OtherFiles \cup {JsonFile(v) : v \in MakerRaws}

HadataiFiles == OtherFiles \cup {JsonFile(v) : v \in HadataiRaws}

SeqsUpTo(X, n) == UNION {[1..k -> X] : k \in 0..n}

\* A directory is missing, cannot be listed, or lists files.
Directories(X, n) ==
  {[state |-> "missing", files |-> <<>>], [state |-> "unreadable", files |-> <<>>]}
    \cup {[state |-> "listed", files |-> fs] : fs \in SeqsUpTo(X, n)}

----------------------------------------------------------------------------
(* Actions of the maker-data plugin *)

\* the file currency-rates.json holding a table
CacheOf(table) == [state |-> "valid", table |-> table]

\* no such file, a file that cannot be read, a file that is not JSON
NoCache(st) == [state |-> st, table |-> NoRates]

CacheStates == {NoCache("absent"), NoCache("unreadable"), NoCache("malformed")}
                 \cup {CacheOf(t) : t \in RateTables}

\* filterUtils.ts lines 253-348: the catch around the fetch installs the
\* embedded table whatever this.rates held
CatchFetchErrorKeep(rs) == rs

CatchFetchError(rs) == FallbackRates

\* filterUtils.ts lines 225-242: loadRates() up to its return or its await of fetch()
loadRates(c) ==
  IF c.state = "absent" THEN [rates |-> NoRates, io |-> <<"cacheAbsent", "fetch">>, done |-> FALSE]
  ELSE IF c.state = "valid" THEN [rates |-> c.table, io |-> <<"cacheLoaded">>, done |-> TRUE]
  ELSE [rates |-> NoRates, io |-> <<"cacheFailed", "fetch">>, done |-> FALSE]

\* lines 840-845: loadContent() up to its await of converter.loadRates()
LoadContentStart ==
  /\ loadContent = "idle"
  /\ logs' = logs \o log(Message("Loading maker and hadatai data...", "", 0))
  /\ \E r \in {loadRates(cache)} :
       /\ rates' = r.rates
       /\ io' = io \o r.io
       /\ loadContent' = IF r.done THEN "loadRates" ELSE "fetch"
  /\ UNCHANGED <<verbose, dirs, raw, content, rlVars, embedVars, cache, contentLoaded, files, utilVars, uiVars>>

\* what fetch() can settle with
FetchOutcomes == {"networkError", "httpError", "ok"}

\* filterUtils.ts lines 242-248: fetch() settles; a network error or a status
\* that is not ok is caught, an ok response has its body read.
FetchSettle(outcome) ==
  /\ loadContent = "fetch"
  /\ IF outcome = "ok"
     THEN /\ loadContent' = "json"
          /\ UNCHANGED <<rates, io>>
     ELSE /\ rates' = CatchFetchError(rates)
          /\ io' = io \o <<"fetchFailed", "fallback">>
          /\ loadContent' = "loadRates"
  /\ UNCHANGED <<verbose, dirs, raw, content, logs, rlVars, embedVars, cache, contentLoaded, files, utilVars, uiVars>>

\* what response.json() can settle with: a body that is not JSON, or a table
Bodies == {NoRates, FeedRates}

\* filterUtils.ts lines 248-253: response.json() settles and the table is
\* written to the cache file; writeFileSync() is inside the same try.
JsonSettle(body, writable) ==
  /\ loadContent = "json"
  /\ IF body = NoRates
     THEN /\ rates' = CatchFetchError(rates)
          /\ io' = io \o <<"fetchFailed", "fallback">>
          /\ UNCHANGED cache
     ELSE IF writable
     THEN /\ rates' = body
          /\ cache' = CacheOf(body)
          /\ io' = io \o <<"fetched", "cacheWritten">>
     ELSE /\ rates' = CatchFetchError(body)
          /\ io' = io \o <<"fetched", "cacheWriteFailed", "fallback">>
          /\ UNCHANGED cache
  /\ loadContent' = "loadRates"
  /\ UNCHANGED <<verbose, dirs, raw, content, logs, rlVars, embedVars, contentLoaded, files, utilVars, uiVars>>

\* lines 847-850: both directories are loaded
LoadFiles ==
  /\ loadContent = "loadRates"
  /\ \E rawMakers \in {loadJsonFiles("makers", dirs["makers"])},
        rawHadatai \in {loadJsonFiles("hadatai", dirs["hadatai"])} :
        /\ raw' = [makers |-> rawMakers.value, hadatai |-> rawHadatai.value]
        /\ logs' = logs \o rawMakers.log \o rawHadatai.log
  /\ loadContent' = "loadJsonFiles"
  /\ UNCHANGED <<verbose, dirs, rates, content, rlVars, embedVars, buildVars, utilVars, uiVars>>

\* lines 852-860: the records are normalized and returned; an error raised
\* by a transform rejects the promise of loadContent().
TransformData ==
  /\ loadContent = "loadJsonFiles"
  /\ \E makers \in {transformMakerData(raw.makers)},
        hadatai \in {transformHadataiData(raw.hadatai, rates)} :
        IF makers.threw
        THEN /\ loadContent' = "rejected"
             /\ logs' = logs \o makers.log
             /\ UNCHANGED content
        ELSE IF hadatai.threw
        THEN /\ loadContent' = "rejected"
             /\ logs' = logs \o makers.log \o hadatai.log
             /\ UNCHANGED content
        ELSE /\ loadContent' = "fulfilled"
             /\ logs' = logs \o makers.log \o hadatai.log
                        \o log(Message("Loaded makers and hadatai entries", "",
                                       Len(makers.value) + Len(hadatai.value)))
             /\ content' = [makers |-> makers.value, hadatai |-> hadatai.value]
  /\ UNCHANGED <<verbose, dirs, rates, raw, rlVars, embedVars, buildVars, utilVars, uiVars>>

----------------------------------------------------------------------------
(* The maker-data plugin: the generated data files *)

\* JSON.stringify(value, null, 2), given as the JSON value the text denotes:
\* a property whose value is undefined is left out, an undefined element of
\* an array is written null.  A normalized record is a record of values.
RECURSIVE Stringify(_)
Stringify(v) ==
  IF "t" \notin DOMAIN v
  THEN Obj([f \in {g \in DOMAIN v : v[g].t # "undefined"} |-> Stringify(v[f])])
  ELSE CASE v.t = "object" ->
              Obj([f \in {g \in DOMAIN v.o : v.o[g].t # "undefined"} |-> Stringify(v.o[f])])
         [] v.t = "array" ->
              List([k \in 1..Len(v.l) |->
                      IF "t" \in DOMAIN v.l[k] /\ v.l[k].t = "undefined"
                      THEN Null ELSE Stringify(v.l[k])])
         [] OTHER -> v

Collections == {"makers", "hadatai"}

\* the files contentLoaded() writes for a collection
JsonArtifact(c) == <<c, "json">>

TsArtifact(c) == <<c, "ts">>

Artifacts == {JsonArtifact(c) : c \in Collections} \cup {TsArtifact(c) : c \in Collections}

NoFile == [kind |-> "none"]

\* a file an earlier build wrote
StaleFile == [kind |-> "stale"]

\* lines 808-818: the text handed to createData()
JsonContent(data) == [kind |-> "json", data |-> Stringify(List(data))]

\* a declaration that serializes the raw objects once more
createTypeScriptContentRaw(data, typeName, exportName) ==
  [kind |-> "ts", typeName |-> typeName, exportName |-> exportName,
   data |-> Stringify(List(raw[IF typeName = "Maker" THEN "makers" ELSE "hadatai"]))]

\* lines 799-805
createTypeScriptContent(data, typeName, exportName) ==
  [kind |-> "ts", typeName |-> typeName, exportName |-> exportName,
   data |-> Stringify(List(data))]

\* lines 821-834: createTypeScriptDataFiles(), given which of its three
\* file-system calls fails, if any; a failure leaves the later files unwritten.
FsOutcomes == {"ok", "mkdirFails", "makersWriteFails", "hadataiWriteFails"}

createTypeScriptDataFiles(fs, c, outcome) ==
  With(createTypeScriptContent(c.makers, "Maker", "makersData"), LAMBDA makersTsContent :
  With(createTypeScriptContent(c.hadatai, "Hadatai", "hadataiData"), LAMBDA hadataiTsContent :
    CASE outcome = "mkdirFails" -> [files |-> fs, threw |-> TRUE]
      [] outcome = "makersWriteFails" -> [files |-> fs, threw |-> TRUE]
      [] outcome = "hadataiWriteFails" ->
           [files |-> [fs EXCEPT ![TsArtifact("makers")] = makersTsContent], threw |-> TRUE]
      [] OTHER ->
           [files |-> [fs EXCEPT ![TsArtifact("makers")] = makersTsContent,
                                 ![TsArtifact("hadatai")] = hadataiTsContent],
            threw |-> FALSE]))

\* lines 863-868 and 808-813: contentLoaded() is given what loadContent()
\* returned and runs up to its await of the first createData()
ContentLoadedStart ==
  /\ loadContent = "fulfilled"
  /\ contentLoaded = "idle"
  /\ logs' = logs \o log(Message("Creating data files for static import...", "", 0))
  /\ contentLoaded' = "makersJson"
  /\ UNCHANGED <<verbose, dirs, rates, loadContent, raw, content, rlVars, embedVars, cache, io, files, utilVars, uiVars>>

\* lines 810-818 and 869-872: the first createData() settles; a rejection is
\* logged and thrown again, otherwise the second createData() is awaited.
CreateMakersJson(written) ==
  /\ contentLoaded = "makersJson"
  /\ IF written
     THEN /\ files' = [files EXCEPT ![JsonArtifact("makers")] = JsonContent(content.makers)]
          /\ contentLoaded' = "hadataiJson"
          /\ UNCHANGED logs
     ELSE /\ contentLoaded' = "rejected"
          /\ logs' = logs \o log(Message("Error creating data files:", "", 0))
          /\ UNCHANGED files
  /\ UNCHANGED <<verbose, dirs, rates, loadContent, raw, content, rlVars, embedVars, cache, io, utilVars, uiVars>>

\* lines 815-818, 821-834 and 866-873: the second createData() settles, then
\* the two declarations are written in the same run.
CreateHadataiJson(written, outcome) ==
  /\ contentLoaded = "hadataiJson"
  /\ IF written
     THEN \E r \in {createTypeScriptDataFiles(
                       [files EXCEPT ![JsonArtifact("hadatai")] = JsonContent(content.hadatai)],
                       content, outcome)} :
            /\ files' = r.files
            /\ contentLoaded' = IF r.threw THEN "rejected" ELSE "fulfilled"
            /\ logs' = logs \o (IF r.threw
                                 THEN log(Message("Error creating data files:", "", 0))
                                 ELSE log(Message("Created TypeScript file", "makers", 0))
                                      \o log(Message("Created TypeScript file", "hadatai", 0))
                                      \o log(Message("Data files created successfully", "", 0)))
     ELSE /\ contentLoaded' = "rejected"
          /\ logs' = logs \o log(Message("Error creating data files:", "", 0))
          /\ UNCHANGED files
  /\ UNCHANGED <<verbose, dirs, rates, loadContent, raw, content, rlVars, embedVars, cache, io, utilVars, uiVars>>

----------------------------------------------------------------------------
(* The filter and sort utilities (src/utils/filterUtils.ts).  The records  *)
(* are of the declared types Maker and Hadatai; the keys of a features      *)
(* object are kept as strings of characters.                                *)

MaxRecords == 3    \* records of a collection handed to a filter or a sorter

\* String.prototype.trim
RECURSIVE trim(_)
trim(str) ==
  IF str = <<>> THEN str
  ELSE IF Head(str) = " " THEN trim(Tail(str))
  ELSE IF str[Len(str)] = " " THEN trim(SubSeq(str, 1, Len(str) - 1))
  ELSE str

\* the term left as typed
termAsTyped(searchTerm) == searchTerm

\* lines 65 and 86: const term = searchTerm.toLowerCase()
term(searchTerm) == toLowerCase(searchTerm)

\* value?.toLowerCase() || ''
LowerOrEmpty(v) == IF v.t = "string" THEN toLowerCase(v.s) ELSE <<>>

\* Array.prototype.some(field => field.includes(t))
SomeIncludes(fields, t) == \E i \in 1..Len(fields) : includes(fields[i], t)

\* lines 73-76
priceExamplesMatch(item, t) ==
  /\ Field(item, "priceExamples").t = "array"
  /\ \E i \in 1..Len(Field(item, "priceExamples").l) :
       \/ includes(toLowerCase(Field(Field(item, "priceExamples").l[i], "type").s), t)
       \/ includes(toLowerCase(TemplateString(Field(Field(item, "priceExamples").l[i], "price"))), t)

\* lines 62-80
filterHadataiBySearch(data, searchTerm) ==
  IF trim(searchTerm) = <<>> THEN data
  ELSE With(term(searchTerm), LAMBDA t :
         SelectSeq(data, LAMBDA item :
           \/ SomeIncludes(<<toLowerCase(Field(item, "name").s),
                             LowerOrEmpty(Field(item, "region")),
                             LowerOrEmpty(Field(item, "notes"))>>, t)
           \/ priceExamplesMatch(item, t)))

\* lines 100-101
englishOrderingMatch(maker, t) ==
  /\ Field(maker, "englishOrdering").t = "string"
  /\ includes(toLowerCase(Field(maker, "englishOrdering").s), t)

\* lines 103-105
featuresMatch(maker, t) ==
  /\ Truthy(Field(maker, "features"))
  /\ \E key \in DOMAIN Field(maker, "features").o :
       Field(maker, "features").o[key] = Bool(TRUE) /\ includes(toLowerCase(key), t)

\* lines 83-111
filterMakersBySearch(data, searchTerm) ==
  IF trim(searchTerm) = <<>> THEN data
  ELSE With(term(searchTerm), LAMBDA t :
         SelectSeq(data, LAMBDA maker :
           \/ SomeIncludes(<<toLowerCase(Field(maker, "name").s),
                             LowerOrEmpty(Field(maker, "alias")),
                             LowerOrEmpty(Field(maker, "notes")),
                             LowerOrEmpty(Field(maker, "priceRange")),
                             LowerOrEmpty(Field(maker, "priceTier")),
                             LowerOrEmpty(Field(maker, "type")),
                             LowerOrEmpty(Field(maker, "region")),
                             LowerOrEmpty(Field(maker, "size")),
                             LowerOrEmpty(Field(maker, "materialType"))>>, t)
           \/ englishOrderingMatch(maker, t)
           \/ featuresMatch(maker, t)))

AllDigits(str, from, to) == to <= Len(str) /\ \A m \in from..to : str[m] \in Digits

\* (?:,\d{3})* from position e on: the end of the last group of a comma and three digits
RECURSIVE ThousandsEnd(_, _)
ThousandsEnd(str, e) ==
  IF e + 4 <= Len(str) /\ str[e + 1] = "," /\ AllDigits(str, e + 2, e + 4)
  THEN ThousandsEnd(str, e + 4)
  ELSE e

\* line 132: priceStr.match(/\$?(\d+(?:,\d{3})*(?:\.\d{2})?)/)[1], the empty
\* string standing for no match
PriceMatch(str) ==
  With({i \in 1..Len(str) : str[i] \in Digits}, LAMBDA first :
    IF first = {} THEN <<>>
    ELSE With(CHOOSE k \in first : \A m \in first : k <= m, LAMBDA i :
         With(CHOOSE k \in i..Len(str) :
                /\ \A m \in i..k : str[m] \in Digits
                /\ k = Len(str) \/ str[k + 1] \notin Digits,
              LAMBDA e1 :
         With(ThousandsEnd(str, e1), LAMBDA e2 :
           IF e2 + 3 <= Len(str) /\ str[e2 + 1] = "." /\ AllDigits(str, e2 + 2, e2 + 3)
           THEN SubSeq(str, i, e2 + 3)
           ELSE SubSeq(str, i, e2)))))

\* lines 128-140: a number, or null
extractNumericPrice(priceStr) ==
  IF ~Truthy(priceStr) \/ priceStr.t # "string" THEN Null
  ELSE With(PriceMatch(priceStr.s), LAMBDA match :
         IF match = <<>> THEN Null
         ELSE parseFloat(SelectSeq(match, LAMBDA c : c # ",")))

\* the sign of x
Sign(x) == IF x < 0 THEN -1 ELSE IF x > 0 THEN 1 ELSE 0

\* the sign of a - b for two decimals
Minus(a, b) == Sign(a.n * Pow10(b.d) - b.n * Pow10(a.d))

Alphabet ==
  <<"a", "b", "c", "d", "e", "f", "g", "h", "i", "j", "k", "l", "m",
    "n", "o", "p", "q", "r", "s", "t", "u", "v", "w", "x", "y", "z">>

\* The collation String.prototype.localeCompare follows: space, punctuation
\* and symbols come before the digits, the digits before the letters, and a
\* letter differs from its capital only when nothing else differs, the small
\* letter first.
Primary(c) ==
  IF c \in Digits THEN DigitValue[c] + Len(Alphabet)
  ELSE IF c \in DOMAIN UpperToLower
       THEN (CHOOSE i \in 1..Len(Alphabet) : Alphabet[i] = UpperToLower[c]) + 2 * Len(Alphabet)
  ELSE IF \E i \in 1..Len(Alphabet) : Alphabet[i] = c
       THEN (CHOOSE i \in 1..Len(Alphabet) : Alphabet[i] = c) + 2 * Len(Alphabet)
  ELSE IF c = " " THEN 0 ELSE 1

Tertiary(c) == IF c \in DOMAIN UpperToLower THEN 1 ELSE 0

RECURSIVE LexCompare(_, _)
LexCompare(x, y) ==
  IF x = <<>> THEN (IF y = <<>> THEN 0 ELSE -1)
  ELSE IF y = <<>> THEN 1
  ELSE IF Head(x) # Head(y) THEN Sign(Head(x) - Head(y))
  ELSE LexCompare(Tail(x), Tail(y))

localeCompare(a, b) ==
  With(LexCompare([i \in 1..Len(a) |-> Primary(a[i])], [i \in 1..Len(b) |-> Primary(b[i])]),
       LAMBDA c :
         IF c # 0 THEN c
         ELSE LexCompare([i \in 1..Len(a) |-> Tertiary(a[i])], [i \in 1..Len(b) |-> Tertiary(b[i])]))

\* a record without the field put last whatever the direction
UndefinedOrderFixed(direction) == 1

\* lines 46, 150 and 184: what the comparator answers for a record without
\* the field against one with it
UndefinedOrder(direction) == IF direction = "asc" THEN 1 ELSE -1

\* lines 50-56, 166-172 and 188-194
compareStrings(aVal, bVal, direction) ==
  IF aVal.t = "string" /\ bVal.t = "string"
  THEN (IF direction = "asc" THEN localeCompare(aVal.s, bVal.s) ELSE localeCompare(bVal.s, aVal.s))
  ELSE 0

\* lines 155-162
comparePrices(aPrice, bPrice, direction) ==
  IF aPrice = Null /\ bPrice = Null THEN 0
  ELSE IF aPrice = Null THEN UndefinedOrder(direction)
  ELSE IF bPrice = Null THEN -UndefinedOrder(direction)
  ELSE IF direction = "asc" THEN Minus(aPrice, bPrice) ELSE Minus(bPrice, aPrice)

Sorters == {"sortMakers", "sortHadatai", "createSorter"}

\* lines 40-57, 144-173 and 178-195: the comparator of each sorter, as a sign
Compare(sorter, a, b, sortConfig) ==
  With(Field(a, sortConfig.key), LAMBDA aVal :
  With(Field(b, sortConfig.key), LAMBDA bVal :
    IF aVal = Undef /\ bVal = Undef THEN 0
    ELSE IF aVal = Undef THEN UndefinedOrder(sortConfig.direction)
    ELSE IF bVal = Undef THEN -UndefinedOrder(sortConfig.direction)
    ELSE IF sorter = "sortMakers" /\ sortConfig.key = "priceRange"
    THEN comparePrices(extractNumericPrice(aVal), extractNumericPrice(bVal), sortConfig.direction)
    ELSE compareStrings(aVal, bVal, sortConfig.direction)))

\* x put after the last record of a sorted sequence that the comparator does
\* not put after it
RECURSIVE Insert(_, _, _, _)
Insert(sorted, x, sorter, sortConfig) ==
  With(sorted, LAMBDA s :
    IF s = <<>> THEN <<x>>
    ELSE IF Compare(sorter, s[Len(s)], x, sortConfig) > 0
    THEN Insert(SubSeq(s, 1, Len(s) - 1), x, sorter, sortConfig) \o <<s[Len(s)]>>
    ELSE s \o <<x>>)

\* [...data].sort(comparator): Array.prototype.sort is stable
RECURSIVE Sort(_, _, _)
Sort(data, sorter, sortConfig) ==
  IF data = <<>> THEN <<>>
  ELSE Insert(Sort(SubSeq(data, 1, Len(data) - 1), sorter, sortConfig),
              data[Len(data)], sorter, sortConfig)

\* A key of a features object
Key(str) == str

FilterMakers ==
  {Obj([name |-> Str(<<"A", "o", "i">>), region |-> Str(<<"T", "o", "k", "y", "o", ",", " ", "J", "a", "p", "a", "n">>)]),
   Obj([name |-> Str(<<"B", "e", "e">>), notes |-> Str(<<"w", "i", "g", " ", "m", "a", "k", "e", "r">>),
        englishOrdering |-> Str(<<"v", "i", "a", " ", "a", "g", "e", "n", "t">>),
        features |-> Obj((Key(<<"W", "i", "g">>) :> Bool(TRUE)) @@ (Key(<<"t", "o", "k", "y", "o">>) :> Bool(FALSE)))]),
   Obj([name |-> Str(<<"C", "y">>), englishOrdering |-> Bool(TRUE), priceRange |-> Str(<<"$", "3", "0", "0">>)])}

FilterHadatai ==
  {Obj([name |-> Str(<<"A", "o", "i">>), region |-> Str(<<"T", "o", "k", "y", "o">>),
        priceExamples |-> List(<<Obj([type |-> Str(<<"F", "u", "l", "l">>), price |-> Str(<<"$", "1", "0", " ", "U", "S", "D", " ", "(", "1", "0", "0", "0", " ", "J", "P", "Y", ")">>)])>>)]),
   Obj([name |-> Str(<<"B", "e", "e">>), notes |-> Str(<<"T", "a", "o", "b", "a", "o", " ", "a", "g", "e", "n", "t">>),
        priceExamples |-> List(<<Obj([type |-> Str(<<"T", "o", "r", "s", "o">>), price |-> Num(250)])>>)]),
   Obj([name |-> Str(<<"C", "y">>)])}

SearchTerms ==
  {<<>>, <<" ", " ">>, <<"t", "o", "k", "y", "o">>, <<"T", "O", "K", "Y", "O">>, <<"w", "i", "g">>, <<"a", "g", "e", "n", "t">>,
   <<" ", "j">>, <<"t", "r", "u", "e">>, <<"2", "5", "0">>, <<"u", "s", "d">>, <<"f", "u", "l", "l">>}

SortRecords ==
  {Obj([name |-> Str(<<"B">>), priceRange |-> Str(<<"$", "3", "0", "0">>)]),
   Obj([priceRange |-> Str(<<"V", "a", "r", "i", "e", "s">>)]),
   Obj([name |-> Str(<<"A">>)]),
   Obj([name |-> Str(<<"a">>), priceRange |-> Str(<<"$", "1", ",", "2", "0", "0">>)]),
   Obj([name |-> Str(<<"A">>), englishOrdering |-> Bool(TRUE)]),
   Obj([name |-> Str(<<"C">>), englishOrdering |-> Str(<<"y", "e", "s">>)]),
   Obj([name |-> Str(<<"D">>), englishOrdering |-> Str(<<"a", "g", "e", "n", "t">>)])}

SortConfigs == [key : {"name", "priceRange", "englishOrdering"}, direction : {"asc", "desc"}]

Amounts == {Decimal(0, 0), Decimal(1, 0), Decimal(125, 1), Decimal(1000, 0)}

Codes == {<<"J", "P", "Y">>, <<"j", "p", "y">>, <<"X", "X", "X">>, <<>>, <<"c", "o", "n", "s", "t", "r", "u", "c", "t", "o", "r">>, <<"C", "O", "N", "S", "T", "R", "U", "C", "T", "O", "R">>}

\* a property of an object literal, left out when it has no value
Property(f, v) == IF v = Undef THEN [g \in {} |-> Undef] ELSE f :> v

\* raw Hadatai records for getEnglishOrderingSupport
OrderingItems ==
  {Obj(Property("notes", notes) @@ Property("currency", currency) @@ Property("englishOrdering", explicit)) :
     notes \in {Undef, Null,
                Str(<<"T", "a", "o", "b", "a", "o", " ", "a", "g", "e", "n", "t">>),
                Str(<<"E", "n", "g", "l", "i", "s", "h", " ", "s", "i", "t", "e", ",", " ", "o", "r", " ", "a", " ", "T", "A", "O", "B", "A", "O", " ", "a", "g", "e", "n", "t">>),
                Str(<<"A", "g", "e", "n", "t", " ", "o", "n", "l", "y">>),
                Str(<<"I", "n", "t", "e", "r", "n", "a", "t", "i", "o", "n", "a", "l">>),
                Str(<<"W", "e", "b", "s", "i", "t", "e">>),
                Str(<<"n", "o", "n", "e">>)},
     currency \in {Undef, Str(<<"U", "S", "D">>), Str(<<"J", "P", "Y">>), Str(<<"u", "s", "d">>)},
     explicit \in {Undef, Null, Bool(TRUE), Bool(FALSE), Str(<<"v", "i", "a", " ", "a", "g", "e", "n", "t">>)}}

PriceStrings ==
  {<<"$", "7", "8", "4", " ", "U", "S", "D">>, <<"$", "2", "0", "0", "-", "3", "0", "0">>,
   <<"$", "1", ",", "2", "3", "4", ".", "5", "0">>, <<"1", "2", ".", "5">>, <<"1", ".", "2", "3", "4">>,
   <<"1", ",", "5">>, <<"1", ",", "2", "0", "0">>, <<"V", "a", "r", "i", "e", "s">>,
   <<"a", "s", "k", ",", " ", "v", "a", "r", "i", "e", "s">>, <<>>}

\* raw Hadatai records for getPriceExamples
PriceItems ==
  {Obj(Property("name", Str(<<"A">>)) @@ Property("currency", currency) @@ Property("priceExamples", priceExamples)) :
     currency \in {Undef, Str(<<>>), Str(<<"J", "P", "Y">>), Str(<<"X", "X", "X">>)},
     priceExamples \in
       {Undef, List(<<>>),
        List(<<Obj([type |-> Str(<<"F">>), price |-> Str(<<"1", ",", "0", "0", "0">>), link |-> Str(<<"l">>)]),
               Obj([type |-> Str(<<"T">>), price |-> Num(250)])>>),
        List(<<Obj([type |-> Str(<<"T">>), price |-> Str(<<"V", "a", "r", "i", "e", "s">>)]),
               Obj([type |-> Str(<<"F">>), price |-> Null, link |-> Str(<<"l">>)]),
               Obj([type |-> Str(<<"F">>), price |-> Str(<<"1", "2", ".", "5">>)])>>)}}

\* no call made, nothing returned
NoCall == [op |-> "none"]

\* the calls of the utilities
Calls ==
  [op : {"convertPrice"}, amount : Amounts, fromCurrency : Codes, rates : RateTables]
    \cup [op : {"filterMakersBySearch"}, data : SeqsUpTo(FilterMakers, MaxRecords), searchTerm : SearchTerms]
    \cup [op : {"filterHadataiBySearch"}, data : SeqsUpTo(FilterHadatai, MaxRecords), searchTerm : SearchTerms]
    \cup [op : Sorters, data : SeqsUpTo(SortRecords, MaxRecords), sortConfig : SortConfigs]
    \cup [op : {"getEnglishOrderingSupport"}, item : OrderingItems]
    \cup [op : {"extractNumericPrice"}, priceStr : PriceStrings]
    \cup [op : {"getPriceExamples"}, item : PriceItems, rates : RateTables \cup {NoRates}]

Return(v) == [op |-> call.op, value |-> v]

ConvertPrice ==
  /\ call.op = "convertPrice"
  /\ result = NoCall
  /\ result' = Return(convertPrice(call.amount, Str(call.fromCurrency), call.rates))
  /\ UNCHANGED <<call, rlVars, embedVars, loadVars, buildVars, uiVars>>

FilterMakersBySearch ==
  /\ call.op = "filterMakersBySearch"
  /\ result = NoCall
  /\ result' = Return(filterMakersBySearch(call.data, call.searchTerm))
  /\ UNCHANGED <<call, rlVars, embedVars, loadVars, buildVars, uiVars>>

FilterHadataiBySearch ==
  /\ call.op = "filterHadataiBySearch"
  /\ result = NoCall
  /\ result' = Return(filterHadataiBySearch(call.data, call.searchTerm))
  /\ UNCHANGED <<call, rlVars, embedVars, loadVars, buildVars, uiVars>>

GetEnglishOrderingSupport ==
  /\ call.op = "getEnglishOrderingSupport"
  /\ result = NoCall
  /\ result' = Return(getEnglishOrderingSupport(call.item))
  /\ UNCHANGED <<call, rlVars, embedVars, loadVars, buildVars, uiVars>>

ExtractNumericPrice ==
  /\ call.op = "extractNumericPrice"
  /\ result = NoCall
  /\ result' = Return(extractNumericPrice(Str(call.priceStr)))
  /\ UNCHANGED <<call, rlVars, embedVars, loadVars, buildVars, uiVars>>

GetPriceExamples ==
  /\ call.op = "getPriceExamples"
  /\ result = NoCall
  /\ result' = Return(getPriceExamples(call.item, call.rates))
  /\ UNCHANGED <<call, rlVars, embedVars, loadVars, buildVars, uiVars>>

SortCall(sorter) ==
  /\ call.op = sorter
  /\ result = NoCall
  /\ result' = Return(Sort(call.data, sorter, call.sortConfig))
  /\ UNCHANGED <<call, rlVars, embedVars, loadVars, buildVars, uiVars>>

----------------------------------------------------------------------------
(* The cards components (src/components/HadataiCards.tsx, MakersCards.tsx). *)
(* An array of a render is the records it holds and whether it is the very *)
(* array object the component was given as data: sort() reorders the array *)
(* it is called on.                                                        *)

Components == {"HadataiCards", "MakersCards"}

\* no component mounted
NoComponent == [component |-> "none"]

\* let filtered = data
Given(items) == [items |-> items, same |-> TRUE]

\* Array.prototype.filter returns a new array
filter(arr, Keep(_)) == [items |-> SelectSeq(arr.items, Keep), same |-> FALSE]

\* the array used as it is
CopyNone(arr) == arr

\* [...filtered], in sortHadatai (filterUtils.ts line 178) and in MakersCards.tsx line 128
Copy(arr) == [items |-> arr.items, same |-> FALSE]

\* filterUtils.ts lines 121-125 and MakersCards.tsx lines 98-102
supportsEnglishOrdering(item) == Field(item, "englishOrdering") \notin {Bool(FALSE), Null, Undef}

\* filterHadataiBySearch answers the array it got for a blank term and
\* MakersCards.tsx lines 107-126 filter, with the predicate of
\* filterMakersBySearch, only for a term that is not blank
searchFilter(component, arr, t) ==
  IF trim(t) = <<>> THEN arr
  ELSE [items |-> IF component = "HadataiCards"
                  THEN filterHadataiBySearch(arr.items, t)
                  ELSE filterMakersBySearch(arr.items, t),
        same |-> FALSE]

\* Array.prototype.sort, in place
sort(arr, component, sortConfig) ==
  [arr EXCEPT !.items = Sort(arr.items, IF component = "HadataiCards" THEN "sortHadatai" ELSE "sortMakers",
                             sortConfig)]

\* the useMemo callback: what it returns, and what it leaves in the array
\* given as data
filteredAndSorted(s, d) ==
  With(IF s.showEnglishOnly THEN filter(Given(d), supportsEnglishOrdering) ELSE Given(d), LAMBDA english :
  With(searchFilter(s.component, english, s.debouncedSearchTerm), LAMBDA filtered :
  With(sort(Copy(filtered), s.component, s.sortConfig), LAMBDA sorted :
    [view |-> sorted.items, data |-> IF sorted.same THEN sorted.items ELSE d])))

UiTerms == {<<>>, <<" ", " ">>, <<"t", "o", "k", "y", "o">>}

SortOptions == [key : {"name", "region"}, direction : {"asc", "desc"}]

\* a render that runs the useMemo callback
Render(s) ==
  \E memo \in {filteredAndSorted(s, propsData)} :
    /\ ui' = s
    /\ view' = memo.view
    /\ propsData' = memo.data

\* the first render, with the initial state of the hooks
Mount ==
  /\ ui.component \in Components
  /\ ~ui.mounted
  /\ Render([ui EXCEPT !.mounted = TRUE])
  /\ UNCHANGED <<snapshot, rlVars, embedVars, loadVars, buildVars, utilVars>>

\* setSearchTerm: the memo does not depend on searchTerm
HandleSearchChange(value) ==
  /\ ui.component \in Components
  /\ ui.mounted
  /\ ui' = [ui EXCEPT !.searchTerm = value]
  /\ UNCHANGED <<snapshot, propsData, view, rlVars, embedVars, loadVars, buildVars, utilVars>>

\* useDebounce hands the search term on once it has rested
Debounce ==
  /\ ui.component \in Components
  /\ ui.mounted
  /\ ui.debouncedSearchTerm # ui.searchTerm
  /\ Render([ui EXCEPT !.debouncedSearchTerm = ui.searchTerm])
  /\ UNCHANGED <<snapshot, rlVars, embedVars, loadVars, buildVars, utilVars>>

HandleEnglishOnlyChange(checked) ==
  /\ ui.component \in Components
  /\ ui.mounted
  /\ Render([ui EXCEPT !.showEnglishOnly = checked])
  /\ UNCHANGED <<snapshot, rlVars, embedVars, loadVars, buildVars, utilVars>>

HandleSortChange(option) ==
  /\ ui.component \in Components
  /\ ui.mounted
  /\ Render([ui EXCEPT !.sortConfig = option])
  /\ UNCHANGED <<snapshot, rlVars, embedVars, loadVars, buildVars, utilVars>>

----------------------------------------------------------------------------
(* Specifications *)

NoContent == [makers |-> <<>>, hadatai |-> <<>>]

InitLoadIdle ==
  /\ verbose = FALSE
  /\ dirs = [d \in DirNames |-> [state |-> "missing", files |-> <<>>]]
  /\ rates = NoRates
  /\ loadContent = "idle"
  /\ raw = NoContent
  /\ content = NoContent
  /\ logs = <<>>

InitBuildIdle ==
  /\ cache = NoCache("absent")
  /\ io = <<>>
  /\ contentLoaded = "idle"
  /\ files = [a \in Artifacts |-> NoFile]

InitUtilIdle ==
  /\ call = NoCall
  /\ result = NoCall

InitUiIdle ==
  /\ ui = NoComponent
  /\ snapshot = <<>>
  /\ propsData = <<>>
  /\ view = <<>>

InitEmbedIdle ==
  /\ nodes = [n \in NodeIds |-> NoNode]
  /\ transform = "idle"

Init == InitRL /\ InitEmbedIdle /\ InitLoadIdle /\ InitBuildIdle /\ InitUtilIdle /\ InitUiIdle

Next ==
  \/ Tick
  \/ Add
  \/ \E l \in LoopIds : TimerFire(l)
  \/ \E t \in TaskIds, w \in BOOLEAN : TaskSpawn(t, w)
  \/ \E t \in TaskIds : \E r \in Outcomes(t) : TaskSettle(t, r)
  \/ \E l \in LoopIds : LoopResume(l)

Spec == Init /\ [][Next]_vars

\* Timers fire, time passes, a body that can settle does, and a ready
\* continuation runs.  Nothing obliges a caller to call add().
Fairness ==
  /\ WF_vars(Tick)
  /\ \A l \in LoopIds : WF_vars(TimerFire(l))
  /\ \A l \in LoopIds : WF_vars(LoopResume(l))
  /\ \A t \in TaskIds : WF_vars(\E r \in Outcomes(t) : TaskSettle(t, r))

FairSpec == Spec /\ Fairness

EmbedInit ==
  /\ InitRL
  /\ \E ks \in [NodeIds -> NodeKinds] : nodes = [n \in NodeIds |-> MakeNode(n, ks[n])]
  /\ transform = "idle"
  /\ InitLoadIdle
  /\ InitBuildIdle
  /\ InitUtilIdle
  /\ InitUiIdle

EmbedNext ==
  \/ Tick
  \/ Transform
  \/ \E t \in TaskIds : \E resp \in Responses(t) : Respond(t, resp)
  \/ \E l \in LoopIds : TimerFire(l)
  \/ \E t \in TaskIds : \E r \in Outcomes(t) : TaskSettle(t, r)
  \/ \E l \in LoopIds : LoopResume(l)
  \/ \E n \in NodeIds : ChainSettle(n)
  \/ TransformSettle

EmbedSpec == EmbedInit /\ [][EmbedNext]_vars

\* loadContent() over every content of the two directories, the rate table
\* coming from the cache file
LoadInit ==
  /\ InitRL
  /\ now = Interval
  /\ InitEmbedIdle
  /\ verbose \in BOOLEAN
  /\ \E m \in Directories(MakerFiles, MaxMakerFiles), h \in Directories(HadataiFiles, MaxHadataiFiles) :
       dirs = [d \in DirNames |-> IF d = "makers" THEN m ELSE h]
  /\ rates = NoRates
  /\ loadContent = "idle"
  /\ raw = NoContent
  /\ content = NoContent
  /\ logs = <<>>
  /\ cache \in {CacheOf(t) : t \in RateTables}
  /\ io = <<>>
  /\ contentLoaded = "idle"
  /\ files = [a \in Artifacts |-> NoFile]
  /\ InitUtilIdle
  /\ InitUiIdle

LoadNext ==
  \/ LoadContentStart
  \/ LoadFiles
  \/ TransformData

LoadSpec == LoadInit /\ [][LoadNext]_vars

\* the directory contents of the whole builds
BuildMakers ==
  {[state |-> "missing", files |-> <<>>]}
    \cup {[state |-> "listed", files |-> <<JsonFile(v)>>] : v \in MakerRaws}

BuildHadatai ==
  {[state |-> "missing", files |-> <<>>]}
    \cup {[state |-> "listed", files |-> <<JsonFile(v)>>] : v \in HadataiRaws}

\* One whole build of the maker-data plugin, loadContent() then
\* contentLoaded(), over every state of the cache file, every answer of the
\* remote feed and every failure of a write.
BuildInit ==
  /\ InitRL
  /\ now = Interval
  /\ InitEmbedIdle
  /\ verbose = TRUE
  /\ \E m \in BuildMakers, h \in BuildHadatai :
       dirs = [d \in DirNames |-> IF d = "makers" THEN m ELSE h]
  /\ rates = NoRates
  /\ loadContent = "idle"
  /\ raw = NoContent
  /\ content = NoContent
  /\ logs = <<>>
  /\ cache \in CacheStates
  /\ io = <<>>
  /\ contentLoaded = "idle"
  /\ files \in {[a \in Artifacts |-> NoFile], [a \in Artifacts |-> StaleFile]}
  /\ InitUtilIdle
  /\ InitUiIdle

BuildNext ==
  \/ LoadContentStart
  \/ \E outcome \in FetchOutcomes : FetchSettle(outcome)
  \/ \E body \in Bodies, writable \in BOOLEAN : JsonSettle(body, writable)
  \/ LoadFiles
  \/ TransformData
  \/ ContentLoadedStart
  \/ \E written \in BOOLEAN : CreateMakersJson(written)
  \/ \E written \in BOOLEAN, outcome \in FsOutcomes : CreateHadataiJson(written, outcome)

BuildSpec == BuildInit /\ [][BuildNext]_vars

\* One call of a utility, over the calls above
UtilInit ==
  /\ InitRL
  /\ now = Interval
  /\ InitEmbedIdle
  /\ InitLoadIdle
  /\ InitBuildIdle
  /\ call \in Calls
  /\ result = NoCall
  /\ InitUiIdle

UtilNext ==
  \/ ConvertPrice
  \/ FilterMakersBySearch
  \/ FilterHadataiBySearch
  \/ \E sorter \in Sorters : SortCall(sorter)
  \/ GetEnglishOrderingSupport
  \/ ExtractNumericPrice
  \/ GetPriceExamples

UtilSpec == UtilInit /\ [][UtilNext]_vars

\* A cards component given a collection, and any changes of its controls
UiInit ==
  /\ InitRL
  /\ now = Interval
  /\ InitEmbedIdle
  /\ InitLoadIdle
  /\ InitBuildIdle
  /\ InitUtilIdle
  /\ \E component \in Components :
       /\ ui = [component |-> component, mounted |-> FALSE, searchTerm |-> <<>>,
                debouncedSearchTerm |-> <<>>, showEnglishOnly |-> FALSE,
                sortConfig |-> [key |-> "name", direction |-> "asc"]]
       /\ snapshot \in SeqsUpTo(IF component = "HadataiCards" THEN FilterHadatai ELSE FilterMakers, MaxRecords)
  /\ propsData = snapshot
  /\ view = <<>>

UiNext ==
  \/ Mount
  \/ \E value \in UiTerms : HandleSearchChange(value)
  \/ Debounce
  \/ \E checked \in BOOLEAN : HandleEnglishOnlyChange(checked)
  \/ \E option \in SortOptions : HandleSortChange(option)

UiSpec == UiInit /\ [][UiNext]_vars

----------------------------------------------------------------------------
(* Properties of the RateLimiter.  Task ids are handed out in the order of *)
(* the add() calls, so task k is the k-th submission.                      *)

Running == {t \in TaskIds : tasks[t].status = "running"}

StartedTasks == {started[k].task : k \in 1..Len(started)}

\* C1: the start times of two consecutively started tasks differ by at least
\* Interval, across exits and restarts of the drain loop too, and the k-th
\* started task starts no earlier than (k-1)*Interval.
MinimumInterval ==
  /\ \A k \in 1..(Len(started) - 1) : started[k + 1].at - started[k].at >= Interval
  /\ \A k \in 1..Len(started) : started[k].at >= (k - 1) * Interval

\* Three tasks have started, the last one by a restarted drain loop and
\* exactly one interval after its predecessor.
MinimumIntervalWitness ==
  /\ Len(started) >= 3
  /\ drains >= 2
  /\ started[3].at - started[2].at = Interval

\* C2: task bodies start in the order of their add() calls.
FifoStart == \A k \in 1..Len(started) : started[k].task = k

\* Three tasks have started, the third one submitted by a running body while
\* another task was waiting in the queue.
FifoStartWitness ==
  /\ Len(started) >= 3
  /\ \E t \in TaskIds : tasks[t].child = 3

\* C3: at most one task body is executing at any time, and when a task has
\* started, the promise of every task started before it has settled.
NoOverlap ==
  /\ Cardinality(Running) <= 1
  /\ \A k \in 1..(Len(started) - 1) : Settled(started[k].task)

\* A body is executing after another one has finished, with a task waiting.
NoOverlapWitness ==
  /\ Len(started) >= 2
  /\ Running # {}
  /\ Len(queue) >= 1

LiveLoops == {l \in LoopIds : loops[l].pc \in {"timer", "task", "resume"}}

\* C4: the promise add(fn) returned is settled at most once, exactly when fn
\* has finished, with fn's own result or error; a failure rejects only that
\* promise and leaves the drain loop running while tasks are queued.
OwnOutcome ==
  /\ \A t \in TaskIds :
       /\ tasks[t].promise.calls <= 1
       /\ Settled(t) <=> tasks[t].status = "done"
       /\ Settled(t) => tasks[t].promise.value = tasks[t].result
       /\ tasks[t].promise.state = "fulfilled" => tasks[t].result = <<"result", t>>
       /\ tasks[t].promise.state = "rejected" => tasks[t].result = <<"error", t>>
  /\ \A l \in LoopIds : loops[l].pc # "crashed"
  /\ (queue # <<>> \/ Running # {}) => (processing /\ LiveLoops # {})

\* A task failed and a task submitted after it has resolved.
OwnOutcomeWitness ==
  \E t, u \in TaskIds :
     /\ t < u
     /\ tasks[t].promise.state = "rejected"
     /\ tasks[u].promise.state = "fulfilled"

\* C5: no task is started twice, and if every body terminates, every task
\* passed to add() is eventually started.
NoDropNoRepeat ==
  /\ [](\A j, k \in 1..Len(started) : j # k => started[j].task # started[k].task)
  /\ (\A u \in TaskIds : []<>(tasks[u].status # "running"))
       => (\A t \in TaskIds : (tasks[t].status = "queued")
                                ~> (tasks[t].status \in {"running", "done"}))

\* The drain loop has been restarted and a task submitted to the suspended
\* loop has finished.
NoDropNoRepeatWitness ==
  /\ drains >= 2
  /\ \A t \in TaskIds : tasks[t].status = "done"

ChildSettled(t) == tasks[t].child # 0 /\ Settled(tasks[t].child)

ChildStarted(t) == tasks[t].child # 0 /\ tasks[tasks[t].child].status \in {"running", "done"}

InnerAfterOuter == \A t \in TaskIds : ChildStarted(t) => tasks[t].status = "done"

\* C6 as stated: whenever a body has called add(), the inner task starts
\* after the outer one completes and both promises eventually settle,
\* whether or not the outer body waits for the inner promise.
NestedAddSettles ==
  /\ []InnerAfterOuter
  /\ \A t \in TaskIds : (tasks[t].child # 0) ~> (Settled(t) /\ ChildSettled(t))

\* C6: provided no body waits for the promise of the task it submitted, the
\* inner task starts after the outer one completes and both promises
\* eventually settle.
NestedAddSettlesNoWait ==
  /\ []InnerAfterOuter
  /\ ([](\A u \in TaskIds : ~tasks[u].waits))
       => (\A t \in TaskIds : (tasks[t].child # 0) ~> (Settled(t) /\ ChildSettled(t)))

\* An outer task and the inner task it submitted without waiting have settled.
NestedAddWitness ==
  \E t \in TaskIds : ~tasks[t].waits /\ Settled(t) /\ ChildSettled(t)

----------------------------------------------------------------------------
(* Properties of the maker-data plugin *)

FilesLoaded == loadContent \in {"loadJsonFiles", "fulfilled", "rejected"}

JsonFiles(d) == SelectSeq(dirs[d].files, LAMBDA f : f.json)

ParsedValues(fs) == [k \in 1..Len(fs) |-> fs[k].parsed]

Warnings(d) == SelectSeq(logs, LAMBDA m : m.msg = "Error loading" /\ m.dir = d)

Usable(f) == f.state = "parsed" /\ Truthy(f.parsed)

Reported(f) == f.state # "parsed" \/ f.parsed = Null

Normalizable(item) == ~transformSingleHadatai(item, rates).threw

NormalizedHadatai(items) == [k \in 1..Len(items) |-> transformSingleHadatai(items[k], rates).value]

\* C10: a record whose normalization fails is excluded alone: loadContent()
\* still returns, with every maker and every other hadatai record normalized.
NormalizationIsolated ==
  loadContent \in {"fulfilled", "rejected"} =>
    /\ loadContent = "fulfilled"
    /\ content.hadatai = NormalizedHadatai(SelectSeq(raw.hadatai, Normalizable))
    /\ Len(content.makers) = Len(raw.makers)

----------------------------------------------------------------------------
(* Properties of remarkSocialEmbeds *)

Launched == {n \in NodeIds : nodes[n].task # 0}

\* C7: the transformer's promise does not settle before every resolution
\* task launched for the document has settled.
TransformWaitsForAll ==
  transform \in {"fulfilled", "rejected"} => \A n \in Launched : Settled(nodes[n].task)

\* C8: a failed resolution is caught at the call site: the transformer never
\* rejects, the node of a failed resolution keeps its attribute list, and the
\* node of a successful resolution is enriched.
FailureCaught ==
  /\ transform # "rejected"
  /\ \A n \in Launched :
       nodes[n].chain # "pending" =>
         /\ nodes[n].chain = "fulfilled"
         /\ tasks[nodes[n].task].promise.state = "rejected"
              => nodes[n].attributes = <<PostAttr(n)>>
         /\ tasks[nodes[n].task].promise.state = "fulfilled"
              => Len(nodes[n].attributes) = 2

----------------------------------------------------------------------------
(* Properties of the whole build *)

\* C11: no failure of any stage of the pipeline aborts the build: neither
\* the promise of loadContent() nor the promise of contentLoaded() is ever
\* rejected.
BuildNeverAborts == loadContent # "rejected" /\ contentLoaded # "rejected"

Positions(e) == {i \in 1..Len(io) : io[i] = e}

Before(e, i) == \E j \in Positions(e) : j < i

\* C16: loadRates() goes cache, remote, fallback: the feed is fetched only
\* when the cache file was absent or failed to load, the cache file is
\* written only after a successful fetch and holds the fetched table, and
\* the embedded table is installed only after the remote attempt failed,
\* never after the feed answered with a table.
RatesOrder ==
  /\ Positions("fetch") # {} =>
       io[1] \in {"cacheAbsent", "cacheFailed"} /\ Positions("cacheLoaded") = {}
  /\ \A i \in Positions("cacheWritten") :
       Before("fetched", i) /\ rates \in Bodies \ {NoRates} /\ cache = CacheOf(rates)
  /\ \A i \in Positions("fallback") :
       Before("fetchFailed", i) /\ Positions("fetched") = {}

LoadRatesCompleted ==
  io # <<>> /\ io[Len(io)] \in {"cacheLoaded", "cacheWritten", "fallback"}

CurrencyCodes == {<<"J", "P", "Y">>, <<"u", "s", "d">>, <<"X", "X", "X">>, <<>>}

Written(a) == files[a].kind \notin {"none", "stale"}

----------------------------------------------------------------------------
(* Properties of the normalized records.  While loadContent() has not     *)
(* thrown, record k of a collection is made from raw object k.             *)

Absent(item, f) == Field(item, f) = Undef

ExpectedName(item) ==
  IF Truthy(Field(item, "name")) THEN Field(item, "name") ELSE Str(<<"U", "n", "k", "n", "o", "w", "n">>)

NoMapping == Obj(<<>>)

MakerOptionalFields ==
  {"alias", "website", "status", "priceRange", "priceDetails", "approxStartingPrice",
   "currency", "priceTier", "type", "size", "materialType", "englishOrdering", "notes"}

RegionAbsent(item) == Absent(item, "Region") /\ Absent(item, "region")

MakerNormalized(item, rec) ==
  /\ rec.name = ExpectedName(item)
  /\ \A f \in {"socials", "features", "hairOptions"} : Absent(item, f) => rec[f] = NoMapping
  /\ \A f \in MakerOptionalFields : Absent(item, f) => rec[f] = Undef
  /\ RegionAbsent(item) => rec.region = Undef

HadataiNameAndSocials(item, rec) ==
  /\ rec.name = ExpectedName(item)
  /\ Absent(item, "socials") => rec.socials = NoMapping
  /\ RegionAbsent(item) => rec.region = Undef
  /\ \A f \in {"currency", "notes"} : Absent(item, f) => rec[f] = Undef

OneRecordPerRawObject ==
  /\ Len(content.makers) = Len(raw.makers)
  /\ Len(content.hadatai) = Len(raw.hadatai)
  /\ \A k \in 1..Len(raw.makers) : MakerNormalized(raw.makers[k], content.makers[k])
  /\ \A k \in 1..Len(raw.hadatai) : HadataiNameAndSocials(raw.hadatai[k], content.hadatai[k])

\* C12 as stated: every record has its source name or "Unknown", there is one
\* record per raw object, socials, features and hairOptions default to empty
\* mappings and every other absent optional field is left absent.
MissingFieldsLeftAbsent ==
  loadContent = "fulfilled" =>
    /\ OneRecordPerRawObject
    /\ \A k \in 1..Len(raw.hadatai) :
         \A f \in {"priceExamples", "englishOrdering"} :
           Absent(raw.hadatai[k], f) => content.hadatai[k][f] = Undef

\* the fields whose type makes a normalization raise are of their declared type
WellTyped(item) ==
  /\ Field(item, "notes").t \in {"string", "undefined", "null"}
  /\ ~Truthy(Field(item, "priceExamples")) \/ Field(item, "priceExamples").t = "array"

\* C12, amended: as above, except that a Hadatai record without
\* priceExamples gets an empty list and one without englishOrdering gets a
\* derived boolean (false when it has neither notes nor currency); loadContent()
\* raises for no record whose fields are merely missing.
MissingFieldsDefaulted ==
  /\ loadContent = "fulfilled" =>
       /\ OneRecordPerRawObject
       /\ \A k \in 1..Len(raw.hadatai) :
            /\ Absent(raw.hadatai[k], "priceExamples") =>
                 content.hadatai[k].priceExamples = List(<<>>)
            /\ Absent(raw.hadatai[k], "englishOrdering") =>
                 content.hadatai[k].englishOrdering.t = "boolean"
            /\ /\ Absent(raw.hadatai[k], "englishOrdering")
               /\ Absent(raw.hadatai[k], "notes")
               /\ Absent(raw.hadatai[k], "currency")
               => content.hadatai[k].englishOrdering = Bool(FALSE)
  /\ loadContent = "rejected" => \E k \in 1..Len(raw.hadatai) : ~WellTyped(raw.hadatai[k])

Acme == Str(<<"A", "c", "m", "e">>)

\* {name: "Acme"} normalized as a Maker and as a Hadatai, beside a record without a name
MissingFieldsWitness ==
  /\ loadContent = "fulfilled"
  /\ raw.makers = <<Obj([name |-> Acme])>>
  /\ content.makers[1].name = Acme
  /\ Len(raw.hadatai) = 2
  /\ raw.hadatai[1] = Obj([name |-> Acme])
  /\ content.hadatai[1].name = Acme
  /\ Absent(raw.hadatai[2], "name")
  /\ content.hadatai[2].name = Str(<<"U", "n", "k", "n", "o", "w", "n">>)

\* a string in which the conversion finds no number
NoNumber(v) == v.t = "string" /\ \A i \in 1..Len(v.s) : v.s[i] \notin Digits \cup {","}

Converted(k) ==
  /\ Truthy(Field(raw.hadatai[k], "currency"))
  /\ Field(raw.hadatai[k], "priceExamples").t = "array"

RawExamples(k) == Field(raw.hadatai[k], "priceExamples").l

\* C13: a price example whose price holds no number, in a record with a
\* currency code, comes out of the pipeline with its price unchanged.
VariesUnchanged ==
  loadContent = "fulfilled" =>
    \A k \in 1..Len(raw.hadatai) :
      Converted(k) =>
        \A j \in 1..Len(RawExamples(k)) :
          NoNumber(Field(RawExamples(k)[j], "price")) =>
            Field(content.hadatai[k].priceExamples.l[j], "price") = Field(RawExamples(k)[j], "price")

\* the prices of the records with the number each starts with (n / 10^d) and
\* the way JavaScript prints that number
PriceAmounts ==
  (Str(<<"1", ",", "0", "0", "0">>) :> [n |-> 1000, d |-> 0, text |-> <<"1", "0", "0", "0">>]) @@
  (Str(<<"1", "2", ".", "5">>) :> [n |-> 125, d |-> 1, text |-> <<"1", "2", ".", "5">>]) @@
  (Num(250) :> [n |-> 250, d |-> 0, text |-> <<"2", "5", "0">>])

\* the integer nearest to num / den, halves going up
Nearest(num, den) ==
  CHOOSE q \in 0..((num \div den) + 1) : 2 * den * q - den <= 2 * num /\ 2 * num < 2 * den * q + den

KnownCode(c) == c.t = "string" /\ toLowerCase(c.s) \in DOMAIN rates.usd

RateOf(c) == rates.usd[toLowerCase(c.s)]

Rewritten(p, c) ==
  Str(<<"$">> \o DigitsOf(Nearest(p.n * RateScale, Pow10(p.d) * RateOf(c)))
        \o <<" ", "U", "S", "D", " ", "(">> \o p.text \o <<" ">> \o c.s \o <<")">>)

\* C14: a price starting with the number n, in a record whose currency code c
\* has the rate r, is rewritten to "$<round(n / r)> USD (<n> <c>)"; 1,000 JPY
\* at the rate 100 gives "$10 USD (1000 JPY)".
PriceRewritten ==
  loadContent = "fulfilled" =>
    \A k \in 1..Len(raw.hadatai) :
      Converted(k) /\ KnownCode(Field(raw.hadatai[k], "currency")) =>
        \A j \in 1..Len(RawExamples(k)) :
          Field(RawExamples(k)[j], "price") \in DOMAIN PriceAmounts =>
            /\ Field(content.hadatai[k].priceExamples.l[j], "price")
                 = Rewritten(PriceAmounts[Field(RawExamples(k)[j], "price")],
                             Field(raw.hadatai[k], "currency"))
            /\ /\ RateOf(Field(raw.hadatai[k], "currency")) = 100 * RateScale
               /\ Field(RawExamples(k)[j], "price") = Str(<<"1", ",", "0", "0", "0">>)
               /\ Field(raw.hadatai[k], "currency") = Str(<<"J", "P", "Y">>)
               => Field(content.hadatai[k].priceExamples.l[j], "price")
                    = Str(<<"$", "1", "0", " ", "U", "S", "D", " ", "(", "1", "0", "0", "0", " ", "J", "P", "Y", ")">>)

\* 1,000 JPY at the rate 100, and 12.5 EUR, whose quotient is rounded up
PriceRewrittenWitness ==
  /\ loadContent = "fulfilled"
  /\ Len(content.hadatai) = 2
  /\ \A k \in 1..2 : Converted(k) /\ Len(RawExamples(k)) >= 1
  /\ Field(content.hadatai[1].priceExamples.l[1], "price") = Str(<<"$", "1", "0", " ", "U", "S", "D", " ", "(", "1", "0", "0", "0", " ", "J", "P", "Y", ")">>)
  /\ Field(content.hadatai[2].priceExamples.l[1], "price") = Str(<<"$", "1", "4", " ", "U", "S", "D", " ", "(", "1", "2", ".", "5", " ", "E", "U", "R", ")">>)

----------------------------------------------------------------------------
(* Properties of the utilities *)

Returned(ops) == call.op \in ops /\ result # NoCall

\* C15: convertPrice with a code the rate table does not hold does not
\* raise, prints one warning and returns the amount as it was given.
UnknownCurrencyPassedThrough ==
  /\ Returned({"convertPrice"})
  /\ toLowerCase(call.fromCurrency) \notin DOMAIN call.rates.usd
  => /\ ~result.value.threw
     /\ Len(result.value.log) = 1
     /\ result.value.value.converted = call.amount

StringsOf(item, fields) ==
  {Field(item, f).s : f \in {g \in fields : Field(item, g).t = "string"}}

EnabledFeatures(maker) ==
  IF Field(maker, "features").t = "object"
  THEN {key \in DOMAIN Field(maker, "features").o : Field(maker, "features").o[key] = Bool(TRUE)}
  ELSE {}

\* the texts of a Maker that are searched
SearchableMaker(maker) ==
  StringsOf(maker, {"name", "alias", "notes", "priceRange", "priceTier", "type", "region",
                    "size", "materialType", "englishOrdering"})
    \cup EnabledFeatures(maker)

ExamplesOf(item) ==
  IF Field(item, "priceExamples").t = "array"
  THEN {Field(item, "priceExamples").l[i] : i \in 1..Len(Field(item, "priceExamples").l)}
  ELSE {}

\* the texts of a Hadatai that are searched
SearchableHadatai(item) ==
  StringsOf(item, {"name", "region", "notes"})
    \cup {Field(e, "type").s : e \in ExamplesOf(item)}
    \cup {TemplateString(Field(e, "price")) : e \in ExamplesOf(item)}

Folded(str) == toLowerCase(str)

ContainsQuery(texts, query) == \E text \in texts : includes(Folded(text), Folded(query))

Blank(query) == \A i \in 1..Len(query) : query[i] = " "

\* C19: a filter returns the records, in their order, of which a searched
\* text contains the query, letter case apart; an empty or blank query
\* returns the collection as it is.
SearchContract ==
  /\ Returned({"filterMakersBySearch"}) =>
       result.value = IF Blank(call.searchTerm) THEN call.data
                      ELSE SelectSeq(call.data,
                                     LAMBDA m : ContainsQuery(SearchableMaker(m), call.searchTerm))
  /\ Returned({"filterHadataiBySearch"}) =>
       result.value = IF Blank(call.searchTerm) THEN call.data
                      ELSE SelectSeq(call.data,
                                     LAMBDA h : ContainsQuery(SearchableHadatai(h), call.searchTerm))

\* "TOKYO" against three Makers of which one has the region "Tokyo, Japan"
SearchContractWitness ==
  /\ Returned({"filterMakersBySearch"})
  /\ call.searchTerm = <<"T", "O", "K", "Y", "O">>
  /\ Len(call.data) = 3
  /\ Field(call.data[2], "region") = Str(<<"T", "o", "k", "y", "o", ",", " ", "J", "a", "p", "a", "n">>)
  /\ call.data[1] # call.data[2] /\ call.data[3] # call.data[2]
  /\ result.value = <<call.data[2]>>

Missing(rec) == Field(rec, call.sortConfig.key) = Undef

\* a priceRange in which no digit stands
NoPrice(rec) ==
  /\ Field(rec, "priceRange").t = "string"
  /\ \A i \in 1..Len(Field(rec, "priceRange").s) : Field(rec, "priceRange").s[i] \notin Digits

Priced(rec) == Field(rec, "priceRange").t = "string" /\ ~NoPrice(rec)

\* every record of the first kind stands after (ascending) or before
\* (descending) every record of the second kind
PlacedLast(recs, direction, Worse(_), Better(_)) ==
  \A i, j \in 1..Len(recs) :
    Worse(recs[i]) /\ Better(recs[j]) => IF direction = "asc" THEN j < i ELSE i < j

Present(rec) == ~Missing(rec)

NameB == Obj([name |-> Str(<<"B">>), priceRange |-> Str(<<"$", "3", "0", "0">>)])

NameMissing == Obj([priceRange |-> Str(<<"V", "a", "r", "i", "e", "s">>)])

NameA == Obj([name |-> Str(<<"A">>)])

\* C20: the sorters put the records without the sort field after the others
\* when ascending and before them when descending, and sortMakers by
\* priceRange does the same with the prices holding no number; B, undefined,
\* A sorted ascending by name is A, B, undefined.
MissingSortedLast ==
  /\ Returned(Sorters) =>
       PlacedLast(result.value, call.sortConfig.direction, Missing, Present)
  /\ Returned({"sortMakers"}) /\ call.sortConfig.key = "priceRange" =>
       PlacedLast(result.value, call.sortConfig.direction, NoPrice, Priced)
  /\ /\ Returned(Sorters)
     /\ call.data = <<NameB, NameMissing, NameA>>
     /\ call.sortConfig = [key |-> "name", direction |-> "asc"]
     => result.value = <<NameA, NameB, NameMissing>>

\* the example of the claim, sorted by sortMakers
MissingSortedLastWitness ==
  /\ Returned({"sortMakers"})
  /\ call.data = <<NameB, NameMissing, NameA>>
  /\ call.sortConfig = [key |-> "name", direction |-> "asc"]
  /\ result.value = <<NameA, NameB, NameMissing>>

\* how often a record stands in a sequence
Count(recs, rec) == Cardinality({i \in 1..Len(recs) : recs[i] = rec})

Permutation(out, data) ==
  /\ Len(out) = Len(data)
  /\ \A i \in 1..Len(data) : Count(out, data[i]) = Count(data, data[i])

ByPrice == call.op = "sortMakers" /\ call.sortConfig.key = "priceRange"

\* a record whose sort field holds a value the order is defined on: a string,
\* and for the price ranges of sortMakers one with a number in it
Comparable(rec) ==
  /\ Field(rec, call.sortConfig.key).t = "string"
  /\ ByPrice => Priced(rec)

\* the order of the sort field: the sign of a against b
KeyOrder(a, b) ==
  IF ByPrice
  THEN Minus(extractNumericPrice(Field(a, "priceRange")), extractNumericPrice(Field(b, "priceRange")))
  ELSE localeCompare(Field(a, call.sortConfig.key).s, Field(b, call.sortConfig.key).s)

Ordered(out) ==
  \A i, j \in 1..Len(out) :
    i < j /\ Comparable(out[i]) /\ Comparable(out[j]) =>
      IF call.sortConfig.direction = "asc"
      THEN KeyOrder(out[i], out[j]) <= 0
      ELSE KeyOrder(out[i], out[j]) >= 0

\* the records holding one value in the sort field stand as they stood
Stable(out, data) ==
  \A i \in 1..Len(data) :
    SelectSeq(out, LAMBDA rec : Field(rec, call.sortConfig.key) = Field(data[i], call.sortConfig.key))
      = SelectSeq(data, LAMBDA rec : Field(rec, call.sortConfig.key) = Field(data[i], call.sortConfig.key))

\* C21: for every collection, key and direction a sorter returns a
\* permutation of its input in which any two records with present values
\* stand in the order of the field (non-decreasing when ascending,
\* non-increasing when descending) and records with equal keys keep their
\* input order, collections with a boolean in the sort field included.
SortContract ==
  Returned(Sorters) =>
    /\ Permutation(result.value, call.data)
    /\ Ordered(result.value)
    /\ Stable(result.value, call.data)

\* what the sorters keep of the contract
SortPermutesAndIsStable ==
  Returned(Sorters) =>
    /\ Permutation(result.value, call.data)
    /\ Stable(result.value, call.data)
    /\ (\A i \in 1..Len(call.data) :
          Field(call.data[i], call.sortConfig.key).t \in {"string", "undefined"})
         => Ordered(result.value)

\* C22: whatever the search terms, the english-only toggles and the sort
\* options chosen, the array given to a cards component holds the records
\* it held, in their order and with their fields; what the component shows
\* is another sequence, of records of that array.
SourceNeverMutated ==
  ui.component \in Components =>
    /\ propsData = snapshot
    /\ \A i \in 1..Len(view) : \E j \in 1..Len(propsData) : view[i] = propsData[j]

\* after a blank search term and a change of the sort option the array
\* given is the one filtered, and it is shown in another order
SourceNeverMutatedWitness ==
  /\ ui.component \in Components
  /\ ui.mounted
  /\ ui.debouncedSearchTerm = <<" ", " ">>
  /\ ui.sortConfig = [key |-> "region", direction |-> "desc"]
  /\ ~ui.showEnglishOnly
  /\ Len(propsData) = MaxRecords
  /\ view # propsData
  /\ Permutation(view, propsData)

\* the resolver of the task launched for node n, "none" when none was
Routed(n) == IF nodes[n].task = 0 THEN "none" ELSE tasks[nodes[n].task].kind

Untouched(n) ==
  /\ nodes[n].task = 0
  /\ nodes[n].attributes = (IF nodes[n].kind.embed THEN <<PostAttr(n)>> ELSE <<>>)

\* C23 as stated: once the transform has visited the tree, every post URL
\* containing "bsky.app" has a DID resolution and no oEmbed resolution, every
\* post URL containing "tiktok.com" has an oEmbed resolution and no DID
\* resolution, and a URL containing neither has no task and its node is
\* unchanged.
DispatchExclusive ==
  transform # "idle" =>
    \A n \in NodeIds :
      /\ nodes[n].kind.bsky => Routed(n) = "did"
      /\ nodes[n].kind.tiktok => Routed(n) = "tiktok"
      /\ ~nodes[n].kind.bsky /\ ~nodes[n].kind.tiktok => Untouched(n)

\* C23: the dispatch is first match wins.  A post URL containing "bsky.app"
\* takes the DID branch, whatever else it contains: a DID resolution is
\* launched if it matches the profile pattern and nothing otherwise, never an
\* oEmbed resolution.  A URL containing "tiktok.com" and not "bsky.app" gets
\* an oEmbed resolution and never a DID resolution.  A URL containing neither
\* launches nothing and its node stays unchanged.
DispatchFirstMatch ==
  /\ \A n \in NodeIds : Routed(n) = "none" => Untouched(n)
  /\ transform # "idle" =>
       \A n \in NodeIds :
         /\ nodes[n].kind.bsky => Routed(n) = (IF nodes[n].kind.match THEN "did" ELSE "none")
         /\ nodes[n].kind.tiktok /\ ~nodes[n].kind.bsky => Routed(n) = "tiktok"
         /\ ~nodes[n].kind.bsky /\ ~nodes[n].kind.tiktok => Routed(n) = "none"

\* a URL containing both names beside a URL containing "tiktok.com" only
DispatchWitness ==
  /\ transform # "idle"
  /\ \E n, m \in NodeIds :
       /\ nodes[n].kind.bsky /\ nodes[n].kind.tiktok /\ nodes[n].kind.match
       /\ Routed(n) = "did"
       /\ nodes[m].kind.tiktok /\ ~nodes[m].kind.bsky
       /\ Routed(m) = "tiktok"

\* C24: at most one invocation of process() is active at any time, whether
\* it runs a task or waits for the interval timer, and the processing flag
\* is true exactly while one is active.
SingleDrain ==
  /\ Cardinality(LiveLoops) <= 1
  /\ processing <=> LiveLoops # {}

\* a task joined the queue while the only drain loop ever started was running
\* another one or waiting for the timer
SingleDrainWitness ==
  /\ drains = 1
  /\ Len(queue) >= 1
  /\ \E l \in LiveLoops : loops[l].pc \in {"task", "timer"}
  /\ Len(started) + Len(queue) >= 2

\* the notes of a record, letter case apart, contain the word
Mentions(item, word) ==
  /\ Field(item, "notes").t = "string"
  /\ includes(Folded(Field(item, "notes").s), word)

AgentRequired(item) ==
  Mentions(item, <<"t", "a", "o", "b", "a", "o">>) /\ Mentions(item, <<"a", "g", "e", "n", "t">>)

SupportIndicated(item) ==
  \/ Mentions(item, <<"w", "e", "b", "s", "i", "t", "e">>)
  \/ Mentions(item, <<"e", "n", "g", "l", "i", "s", "h">>)
  \/ Mentions(item, <<"i", "n", "t", "e", "r", "n", "a", "t", "i", "o", "n", "a", "l">>)
  \/ Field(item, "currency") = Str(<<"U", "S", "D">>)

\* C25: without an explicit englishOrdering the flag derived for a Hadatai
\* record is false whenever its notes mention both "taobao" and "agent",
\* whatever else they or the currency indicate, otherwise true if the notes
\* mention "website", "english" or "international" or the currency is USD,
\* otherwise false; an explicit englishOrdering is returned as it is.
EnglishOrderingRule ==
  Returned({"getEnglishOrderingSupport"}) =>
    /\ ~result.value.threw
    /\ result.value.value =
         IF Field(call.item, "englishOrdering") # Undef
         THEN Field(call.item, "englishOrdering")
         ELSE Bool(~AgentRequired(call.item) /\ SupportIndicated(call.item))

\* notes that mention english ordering and the purchasing agent, in USD
EnglishOrderingWitness ==
  /\ Returned({"getEnglishOrderingSupport"})
  /\ Field(call.item, "englishOrdering") = Undef
  /\ AgentRequired(call.item)
  /\ Mentions(call.item, <<"e", "n", "g", "l", "i", "s", "h">>)
  /\ Field(call.item, "currency") = Str(<<"U", "S", "D">>)
  /\ result.value.value = Bool(FALSE)

\* the number convertPriceString converts: with a currency no table holds it
\* comes back as converted, and without a number nothing is converted and no
\* warning is printed; null stands for no number
ConversionAmount(priceStr) ==
  With(convertPriceString(priceStr, Str(<<"X", "X", "X">>), FeedRates), LAMBDA conversion :
    IF conversion.log = <<>> THEN Null ELSE conversion.value.converted)

SameNumber(a, b) == IF a = Null \/ b = Null THEN a = b ELSE Minus(a, b) = 0

\* C26: for every price string extractNumericPrice and the conversion step
\* extract the same number, and the one finds none exactly when the other
\* finds none.
SameExtraction ==
  Returned({"extractNumericPrice"}) =>
    SameNumber(result.value, ConversionAmount(call.priceStr))

\* what the two extractions share: a number is found in the same strings
SameStringsHoldNumbers ==
  Returned({"extractNumericPrice"}) =>
    (result.value = Null <=> ConversionAmount(call.priceStr) = Null)

\* the price examples of a raw record, none when it has no such field
SourceExamples(item) == IF Field(item, "priceExamples") = Undef THEN <<>> ELSE Field(item, "priceExamples").l

\* two examples with the same fields, holding the same values but for the price
SameButPrice(a, b) ==
  /\ DOMAIN a.o = DOMAIN b.o
  /\ \A f \in DOMAIN a.o \ {"price"} : a.o[f] = b.o[f]

\* C27: the conversion step of a record returns as many price examples as
\* the source has, in their order, each with its type, its link and every
\* other field but the price as in the source, and the price examples of a
\* record without a currency code exactly as in the source.
OnlyPriceChanged ==
  Returned({"getPriceExamples"}) =>
    /\ ~result.value.threw
    /\ Len(result.value.value.l) = Len(SourceExamples(call.item))
    /\ \A j \in 1..Len(SourceExamples(call.item)) :
         SameButPrice(result.value.value.l[j], SourceExamples(call.item)[j])
    /\ ~Truthy(Field(call.item, "currency")) => result.value.value.l = SourceExamples(call.item)

\* an example with a link, its price rewritten, before an example without one
OnlyPriceChangedWitness ==
  /\ Returned({"getPriceExamples"})
  /\ Field(call.item, "currency") = Str(<<"J", "P", "Y">>)
  /\ call.rates = FeedRates
  /\ Len(result.value.value.l) = 2
  /\ Field(result.value.value.l[1], "link") = Str(<<"l">>)
  /\ Field(result.value.value.l[1], "price") # Field(SourceExamples(call.item)[1], "price")
  /\ Field(result.value.value.l[2], "type") = Str(<<"T">>)

HasAttribute(n, name) == \E i \in 1..Len(nodes[n].attributes) : nodes[n].attributes[i].name = name

\* the lookup for node n answered with a success status and a non-empty
\* identifier
Identified(n) ==
  /\ nodes[n].task # 0
  /\ tasks[nodes[n].task].kind = "did"
  /\ tasks[nodes[n].task].response = Answer(TRUE, "string")

\* C28: a node has a did attribute only if its post URL matched the profile
\* pattern and the lookup answered with a success status and a non-empty
\* identifier; a resolution whose answer has a non-success status or an
\* empty identifier fails, a URL that does not match launches none, and in
\* both cases the node gets no did attribute.  No node gets more than one
\* attribute appended.
DidOnlyWhenResolved ==
  \A n \in NodeIds :
    /\ HasAttribute(n, "did") => nodes[n].kind.match /\ Identified(n)
    /\ nodes[n].kind.bsky /\ ~nodes[n].kind.match => Untouched(n)
    /\ /\ Routed(n) = "did"
       /\ Settled(nodes[n].task)
       /\ tasks[nodes[n].task].response.fetch = "fulfilled"
       /\ ~tasks[nodes[n].task].response.ok \/ tasks[nodes[n].task].response.body = "none"
       => tasks[nodes[n].task].promise.state = "rejected"
    /\ Len(nodes[n].attributes) <= (IF nodes[n].kind.embed THEN 2 ELSE 0)
    /\ nodes[n].chain = "fulfilled" /\ Identified(n) => HasAttribute(n, "did")

\* one node has its did, and another, answered with an identifier under a
\* non-success status, has none after its resolution failed
DidOnlyWhenResolvedWitness ==
  \E n, m \in NodeIds :
    /\ HasAttribute(n, "did")
    /\ Routed(m) = "did"
    /\ tasks[nodes[m].task].response = Answer(FALSE, "string")
    /\ nodes[m].chain = "fulfilled"
    /\ nodes[m].attributes = <<PostAttr(m)>>

\* the attribute of node n named name
Attribute(n, name) ==
  nodes[n].attributes[CHOOSE i \in 1..Len(nodes[n].attributes) : nodes[n].attributes[i].name = name]

\* C29: the TikTok resolver fails whenever its fetch is not successful, by a
\* network error or a non-success status, and a node has an embedHtml
\* attribute only with the markup of a successful oEmbed answer, never with
\* an undefined value.
EmbedHtmlOnlyMarkup ==
  \A n \in NodeIds :
    /\ Routed(n) = "tiktok" /\ Settled(nodes[n].task)
         /\ tasks[nodes[n].task].response \notin {Answer(TRUE, body) : body \in {"invalid", "none", "string"}}
         => tasks[nodes[n].task].promise.state = "rejected"
    /\ HasAttribute(n, "embedHtml") =>
         /\ tasks[nodes[n].task].response = Answer(TRUE, "string")
         /\ Attribute(n, "embedHtml").value = <<"html", nodes[n].task>>

\* what holds of the TikTok resolver: a network error fails it, and the
\* attribute is whatever html field the answer has, whatever its status
EmbedHtmlIsAnswerField ==
  \A n \in NodeIds :
    /\ Routed(n) = "tiktok" /\ Settled(nodes[n].task) /\ tasks[nodes[n].task].response = NetworkError
         => tasks[nodes[n].task].promise.state = "rejected"
    /\ HasAttribute(n, "embedHtml") =>
         /\ tasks[nodes[n].task].response.fetch = "fulfilled"
         /\ Attribute(n, "embedHtml").value =
              (IF tasks[nodes[n].task].response.body = "string"
               THEN <<"html", nodes[n].task>> ELSE <<"undefined", 0>>)

\* C30: when loadRates() has completed, the embedded table has been
\* installed only if the cache file was not loaded and the feed did not
\* answer with a table, and after the feed answered with a table the
\* converter holds that table.
FallbackOnlyAfterBothFailed ==
  LoadRatesCompleted =>
    /\ Positions("fallback") # {} => Positions("cacheLoaded") = {} /\ Positions("fetched") = {}
    /\ Positions("fetched") # {} => rates = FeedRates

\* the same, for the runs in which the cache file can be written
FallbackOnlyAfterBothFailedIfWritable ==
  LoadRatesCompleted /\ Positions("cacheWriteFailed") = {} =>
    /\ Positions("fallback") # {} => Positions("cacheLoaded") = {} /\ Positions("fetched") = {}
    /\ Positions("fetched") # {} => rates = FeedRates

====
